---- MODULE Spec2Model ----
(***************************************************************************)
(* State-machine model of the backend behaviour described by the test      *)
(* suites of the repository: the purchase lifecycle driven by Stripe       *)
(* webhooks (tests/backend/purchases_state_machine.py), the points system  *)
(* and its locked redemption (tests/backend/points_system.py), the         *)
(* authentication guards (tests/backend/auth_guards.py), the certificates  *)
(* (tests/backend/certificates.py), the row level security of the          *)
(* enrollments (tests/backend/rls_smoke_tests.py), the database            *)
(* initializer (apps/backend/db/init_db.py) and the commerce seeder        *)
(* (apps/backend/db/seed.py).                                              *)
(*                                                                         *)
(* Python dictionaries are records; a key that a dictionary does not have  *)
(* is a field that is not in the record's DOMAIN, so that d['k'] on a      *)
(* missing key (KeyError) and d.get('k') are told apart.                   *)
(***************************************************************************)
EXTENDS Integers, Sequences, FiniteSets, TLC

(***************************************************************************)
(* Bounds of the model.                                                    *)
(***************************************************************************)
MaxTime == 2
MaxPurchases == 2
MaxEvents == 6
MaxHistory == 2
MaxThreads == 2
MaxRuns == 2

(***************************************************************************)
(* Python values.                                                          *)
(***************************************************************************)
\* None in a field that otherwise holds a timestamp or a datetime
None == -1

\* the timestamps Stripe sends and the values of datetime.now(): positive
Times == 1..MaxTime

\* truth value of an optional integer: None and 0 are falsy
TruthyInt(x) == x # None /\ x # 0

\* truth value of an optional datetime: only None is falsy
TruthyDatetime(d) == d # None

\* datetime.fromtimestamp: datetimes are numbered by the second they denote,
\* which keeps the order of the timestamps
fromtimestamp(ts) == ts

\* d.get(k): the value, or None when the key is missing
Get(d, k) == IF k \in DOMAIN d THEN d[k] ELSE None

\* d[k] = v on a dictionary: the key is added or overwritten
SetItem(d, k, v) == [x \in DOMAIN d \cup {k} |-> IF x = k THEN v ELSE d[x]]

\* what a call leaves behind: a plain return of None, a returned value, or
\* an exception that left the function
ReturnNone(f) == [op |-> f, ret |-> "None"]
Return(f, v) == [op |-> f, ret |-> "value", value |-> v]
Raise(f, e) == [op |-> f, ret |-> "raise", exc |-> e]

VARIABLES
    now,                        \* datetime.now()
    purchases,                  \* mock_database['purchases']
    processed_events,           \* processed_events of process_webhook_idempotent
    user_profile,               \* the user_profile fixture
    points_history_database,    \* the points_history_database fixture
    redemption_lock,            \* the flag of test_concurrent_redemption_prevention
    calls,                      \* the thread_safe_redemption call of each thread
    req,                        \* the MockRequest handed to a guard
    res,                        \* the MockResponse handed to a guard
    next_called,                \* next_called.called of the Mock handed to a guard
    certificate_database,       \* certificate_database of the certificate tests
    enrollment_database,        \* the enrollment_database fixture
    initializer,                \* the run of main() of db/init_db.py
    posted,                     \* the requests.post calls of that run
    exit_code,                  \* the argument of sys.exit, None while running
    seeder,                     \* the CommerceSeeder of db/seed.py and its run
    database,                   \* the tables the seeder writes to
    result                      \* the outcome of the last call

vars == <<now, purchases, processed_events, user_profile, points_history_database,
          redemption_lock, calls, req, res, next_called, certificate_database,
          enrollment_database, initializer, posted, exit_code, seeder, database,
          result>>

purchaseVars == <<now, purchases, processed_events>>

pointsVars == <<user_profile, points_history_database>>

lockVars == <<redemption_lock, calls>>

authVars == <<req, res, next_called>>

certVars == <<certificate_database>>

rlsVars == <<enrollment_database>>

initializerVars == <<initializer, posted, exit_code>>

seedVars == <<seeder, database>>

\* what neither the purchase handlers nor the points functions touch
restVars == <<lockVars, authVars, certVars, rlsVars, initializerVars, seedVars>>

\* what the steps of thread_safe_redemption leave alone
notLockVars ==
    <<purchaseVars, points_history_database, authVars, certVars, rlsVars,
      initializerVars, seedVars>>

\* what the guards leave alone
notAuthVars ==
    <<purchaseVars, pointsVars, lockVars, certVars, rlsVars,
      initializerVars, seedVars>>

\* what the certificate functions leave alone
notCertVars ==
    <<purchaseVars, pointsVars, lockVars, authVars, rlsVars,
      initializerVars, seedVars>>

\* what the enrollment functions leave alone
notRlsVars ==
    <<purchaseVars, pointsVars, lockVars, authVars, certVars,
      initializerVars, seedVars>>

\* what the database initializer leaves alone
notInitializerVars ==
    <<purchaseVars, pointsVars, lockVars, authVars, certVars, rlsVars, seedVars>>

\* what the seeder leaves alone
notSeedVars ==
    <<purchaseVars, pointsVars, lockVars, authVars, certVars, rlsVars,
      initializerVars>>

(***************************************************************************)
(* Webhook payloads.                                                       *)
(***************************************************************************)
UserIds == {"user-123", "user-456"}
ProductSkus == {"bootcamp_basic", "bootcamp_plus"}
SessionIds == {"cs_test_session", "cs_test_other"}
SubscriptionIds == {"sub_test123", "sub_test456"}

\* the metadata of a checkout: who buys what. A Stripe session or
\* subscription belongs to one customer and one product.
Metadata(id) ==
    IF id \in {"cs_test_session", "sub_test123"}
    THEN [user_id |-> "user-123",
          product_sku |-> IF id \in SessionIds THEN "bootcamp_basic" ELSE "bootcamp_plus"]
    ELSE [user_id |-> "user-456",
          product_sku |-> IF id \in SessionIds THEN "bootcamp_plus" ELSE "bootcamp_basic"]

CheckoutSessions == {[id |-> s, metadata |-> Metadata(s)] : s \in SessionIds}

\* a subscription is created without a trial or with a trial that has yet
\* to end
CreatedSubscriptions ==
    {[id |-> s, metadata |-> Metadata(s), trial_end |-> t] :
        s \in SubscriptionIds, t \in {x \in Times : x >= now} \cup {None}}

\* canceled_at is int(datetime.now().timestamp())
DeletedSubscriptions ==
    {[id |-> s, metadata |-> Metadata(s), canceled_at |-> now] : s \in SubscriptionIds}

Event(id, type, object) == [id |-> id, type |-> type, data |-> [object |-> object]]

CheckoutEvents ==
    {Event("evt_test_checkout", "checkout.session.completed", s) : s \in CheckoutSessions}

SubscriptionCreatedEvents ==
    {Event("evt_test_subscription", "customer.subscription.created", s) :
        s \in CreatedSubscriptions}

SubscriptionDeletedEvents ==
    {Event("evt_test_cancel", "customer.subscription.deleted", s) :
        s \in DeletedSubscriptions}

EmptyObject == [id |-> "none"]

OtherEvents ==
    {Event("evt_test_invalid", "invoice.payment_failed", EmptyObject),
     Event("evt_test_customer", "customer.created", EmptyObject)}

WebhookEvents ==
    CheckoutEvents \cup SubscriptionCreatedEvents \cup SubscriptionDeletedEvents
        \cup OtherEvents

(***************************************************************************)
(* test_checkout_completed_one_time_purchase: process_webhook              *)
(***************************************************************************)
amount_paid == 29900

\* a purchase that records a fixed product instead of the one bought
CheckoutPurchase_FixedSku(session) ==
    [id |-> <<"purchase", session.id>>,
     user_id |-> session.metadata.user_id,
     product_sku |-> "bootcamp_basic",
     stripe_session_id |-> session.id,
     status |-> "active",
     amount_paid |-> amount_paid]

\* created_at (datetime.now()) is written and never read; it is left out of
\* the purchase records
CheckoutPurchase(session) ==
    [id |-> <<"purchase", session.id>>,
     user_id |-> session.metadata.user_id,
     product_sku |-> session.metadata.product_sku,
     stripe_session_id |-> session.id,
     status |-> "active",
     amount_paid |-> amount_paid]

process_webhook(event_data) ==
    /\ event_data.type = "checkout.session.completed" => Len(purchases) < MaxPurchases
    /\ IF event_data.type = "checkout.session.completed"
       THEN LET purchase == CheckoutPurchase(event_data.data.object)
            IN /\ purchases' = Append(purchases, purchase)
               /\ result' = Return("process_webhook", purchase)
       ELSE /\ purchases' = purchases
            /\ result' = ReturnNone("process_webhook")
    /\ UNCHANGED <<now, processed_events, pointsVars, restVars>>

(***************************************************************************)
(* test_subscription_created_with_trial: process_subscription_webhook      *)
(***************************************************************************)
\* every new subscription is taken to be in trial
SubscriptionStatus_AlwaysTrialing(sub) == "trialing"

SubscriptionStatus(sub) ==
    IF TruthyInt(Get(sub, "trial_end")) THEN "trialing" ELSE "active"

SubscriptionTrialEndsAt(sub) ==
    IF TruthyInt(Get(sub, "trial_end")) THEN fromtimestamp(sub.trial_end) ELSE None

SubscriptionPurchase(sub) ==
    [id |-> <<"purchase", sub.id>>,
     user_id |-> sub.metadata.user_id,
     product_sku |-> sub.metadata.product_sku,
     stripe_subscription_id |-> sub.id,
     status |-> SubscriptionStatus(sub),
     trial_ends_at |-> SubscriptionTrialEndsAt(sub)]

process_subscription_webhook(event_data) ==
    /\ event_data.type = "customer.subscription.created" => Len(purchases) < MaxPurchases
    /\ IF event_data.type = "customer.subscription.created"
       THEN LET purchase == SubscriptionPurchase(event_data.data.object)
            IN /\ purchases' = Append(purchases, purchase)
               /\ result' = Return("process_subscription_webhook", purchase)
       ELSE /\ purchases' = purchases
            /\ result' = ReturnNone("process_subscription_webhook")
    /\ UNCHANGED <<now, processed_events, pointsVars, restVars>>

(***************************************************************************)
(* test_subscription_cancelled_state_transition:                           *)
(* process_cancellation_webhook                                            *)
(***************************************************************************)
\* the first purchase at which the loop stops: the first one whose
\* stripe_subscription_id is missing (KeyError) or equal to the deleted
\* subscription; 0 when the loop runs to its end
CancellationStop(ps, sub) ==
    LET stops(i) == \/ "stripe_subscription_id" \notin DOMAIN ps[i]
                    \/ ps[i].stripe_subscription_id = sub.id
    IN IF \E i \in 1..Len(ps) : stops(i)
       THEN CHOOSE i \in 1..Len(ps) : stops(i) /\ \A j \in 1..(i - 1) : ~stops(j)
       ELSE 0

\* a cancellation that writes 'active' instead of 'cancelled'
CancelPurchase_Reactivate(purchase, sub) ==
    SetItem(SetItem(purchase, "status", "active"),
            "cancelled_at", fromtimestamp(sub.canceled_at))

CancelPurchase(purchase, sub) ==
    SetItem(SetItem(purchase, "status", "cancelled"),
            "cancelled_at", fromtimestamp(sub.canceled_at))

process_cancellation_webhook(event_data) ==
    /\ IF event_data.type = "customer.subscription.deleted"
       THEN LET sub == event_data.data.object
                i == CancellationStop(purchases, sub)
            IN IF i = 0
               THEN /\ purchases' = purchases
                    /\ result' = ReturnNone("process_cancellation_webhook")
               ELSE IF "stripe_subscription_id" \notin DOMAIN purchases[i]
               THEN /\ purchases' = purchases
                    /\ result' = Raise("process_cancellation_webhook", "KeyError")
               ELSE /\ purchases' =
                          [purchases EXCEPT ![i] = CancelPurchase(purchases[i], sub)]
                    /\ result' = Return("process_cancellation_webhook",
                                        CancelPurchase(purchases[i], sub))
       ELSE /\ purchases' = purchases
            /\ result' = ReturnNone("process_cancellation_webhook")
    /\ UNCHANGED <<now, processed_events, pointsVars, restVars>>

(***************************************************************************)
(* test_invalid_webhook_ignored: process_webhook with supported_events     *)
(***************************************************************************)
\* a list of supported events that also lets failed invoices through
supported_events_WithInvoice ==
    {"checkout.session.completed",
     "customer.subscription.created",
     "customer.subscription.deleted",
     "invoice.payment_failed"}

supported_events ==
    {"checkout.session.completed",
     "customer.subscription.created",
     "customer.subscription.deleted"}

process_webhook_supported(event_data) ==
    /\ IF event_data.type \notin supported_events
       THEN result' = ReturnNone("process_webhook_supported")
       ELSE result' = Return("process_webhook_supported", "processed")
    /\ UNCHANGED <<purchaseVars, pointsVars, restVars>>

(***************************************************************************)
(* test_trial_expiration_handling: check_trial_expiration                  *)
(***************************************************************************)
\* an expiry test that does not look at the clock
TrialExpired_NoClock(purchase, t) ==
    /\ purchase.status = "trialing"
    /\ TruthyDatetime(Get(purchase, "trial_ends_at"))

TrialExpired(purchase, t) ==
    /\ purchase.status = "trialing"
    /\ TruthyDatetime(Get(purchase, "trial_ends_at"))
    /\ purchase.trial_ends_at < t

\* the first purchase of the list whose trial has expired, 0 if none
FirstExpired(ps, t) ==
    IF \E i \in 1..Len(ps) : TrialExpired(ps[i], t)
    THEN CHOOSE i \in 1..Len(ps) :
            TrialExpired(ps[i], t) /\ \A j \in 1..(i - 1) : ~TrialExpired(ps[j], t)
    ELSE 0

ExpirePurchase(purchase) == SetItem(purchase, "status", "past_due")

check_trial_expiration ==
    /\ LET i == FirstExpired(purchases, now)
       IN IF i = 0
          THEN /\ purchases' = purchases
               /\ result' = ReturnNone("check_trial_expiration")
          ELSE /\ purchases' = [purchases EXCEPT ![i] = ExpirePurchase(purchases[i])]
               /\ result' = Return("check_trial_expiration", ExpirePurchase(purchases[i]))
    /\ UNCHANGED <<now, processed_events, pointsVars, restVars>>

(***************************************************************************)
(* test_duplicate_webhook_prevention: process_webhook_idempotent           *)
(***************************************************************************)
\* Stripe numbers its events: an id stands for one event, whose type and
\* payload every delivery of it repeats
DeliveredSession(i) ==
    LET s == IF i % 2 = 0 THEN "cs_test_session" ELSE "cs_test_other"
    IN [id |-> s, metadata |-> Metadata(s)]

DeliveredEvent(i) ==
    IF i % 3 = 0
    THEN Event(i, "invoice.payment_failed", EmptyObject)
    ELSE Event(i, "checkout.session.completed", DeliveredSession(i))

DeliveredEvents == {DeliveredEvent(i) : i \in 1..MaxEvents}

\* the duplicate test never finds the event
AlreadyProcessed_Never(event_id, seen) == FALSE

AlreadyProcessed(event_id, seen) == event_id \in seen

IdempotentPurchase(session) ==
    [id |-> <<"purchase", session.id>>,
     user_id |-> session.metadata.user_id,
     status |-> "active"]

process_webhook_idempotent(event_data) ==
    /\ IF AlreadyProcessed(event_data.id, processed_events)
       THEN /\ result' = Return("process_webhook_idempotent",
                                [status |-> "already_processed"])
            /\ UNCHANGED <<purchases, processed_events>>
       ELSE /\ processed_events' = processed_events \cup {event_data.id}
            /\ IF event_data.type = "checkout.session.completed"
               THEN LET purchase == IdempotentPurchase(event_data.data.object)
                    IN /\ purchases' = Append(purchases, purchase)
                       /\ result' = Return("process_webhook_idempotent",
                                           [status |-> "processed",
                                            purchase |-> purchase])
               ELSE /\ purchases' = purchases
                    /\ result' = ReturnNone("process_webhook_idempotent")
    /\ UNCHANGED <<now, pointsVars, restVars>>

\* time passes between two calls
Tick ==
    /\ now < MaxTime
    /\ now' = now + 1
    /\ UNCHANGED <<purchases, processed_events, pointsVars, result, restVars>>

(***************************************************************************)
(* The points system: tests/backend/points_system.py                       *)
(***************************************************************************)
initial_points == 150

QuizIds == {"day1_quiz", "day2_quiz"}
BadgeIds == {"BYOD_CHAMP", "FHIR_LOOP_CLOSER"}
ObservationIds == {"obs-001", "obs-002"}
Scores == {85, 90}
ItemIds == {"template_001"}
Costs == {0, 50, 100}

\* next((award for award in history if award['user_id'] == user_id and
\* award[key] == value and award['award_type'] == award_type), None): the
\* first record at which the scan stops, because it matches or because it
\* belongs to the user and has no such key (KeyError); 0 when the scan
\* reaches the end
ScanStopTyped(history, user_id, key, value, award_type) ==
    LET stops(i) ==
            /\ history[i].user_id = user_id
            /\ \/ key \notin DOMAIN history[i]
               \/ history[i][key] = value /\ history[i].award_type = award_type
    IN IF \E i \in 1..Len(history) : stops(i)
       THEN CHOOSE i \in 1..Len(history) :
                stops(i) /\ \A j \in 1..(i - 1) : ~stops(j)
       ELSE 0

\* the same scan without a test of the award type
ScanStop(history, user_id, key, value) ==
    LET stops(i) ==
            /\ history[i].user_id = user_id
            /\ \/ key \notin DOMAIN history[i]
               \/ history[i][key] = value
    IN IF \E i \in 1..Len(history) : stops(i)
       THEN CHOOSE i \in 1..Len(history) :
                stops(i) /\ \A j \in 1..(i - 1) : ~stops(j)
       ELSE 0

quiz_points == 25
byod_points == 50
observation_points == 10

\* an award call: the scan raises, finds the award, or the points are given
Award(f, i, key, reason, points_awarded, award_record) ==
    IF i # 0 /\ key \notin DOMAIN points_history_database[i]
    THEN /\ result' = Raise(f, "KeyError")
         /\ UNCHANGED pointsVars
    ELSE IF i # 0
    THEN /\ result' = Return(f, [success |-> FALSE, reason |-> reason])
         /\ UNCHANGED pointsVars
    ELSE /\ Len(points_history_database) < MaxHistory
         /\ user_profile' =
                [user_profile EXCEPT !.fhir_points = @ + points_awarded]
         /\ points_history_database' = Append(points_history_database, award_record)
         /\ result' = Return(f, [success |-> TRUE, points_awarded |-> points_awarded])

award_quiz_points(user_id, quiz_id, score) ==
    /\ Award("award_quiz_points",
             ScanStopTyped(points_history_database, user_id, "quiz_id", quiz_id,
                           "quiz_completion"),
             "quiz_id", "Points already awarded for this quiz", quiz_points,
             [user_id |-> user_id, quiz_id |-> quiz_id,
              award_type |-> "quiz_completion", points |-> quiz_points,
              score |-> score, awarded_at |-> now])
    /\ UNCHANGED <<purchaseVars, restVars>>

award_byod_points(user_id, badge_id) ==
    /\ Award("award_byod_points",
             ScanStopTyped(points_history_database, user_id, "badge_id", badge_id,
                           "badge_earned"),
             "badge_id", "Badge already earned", byod_points,
             [user_id |-> user_id, badge_id |-> badge_id,
              award_type |-> "badge_earned", points |-> byod_points,
              awarded_at |-> now])
    /\ UNCHANGED <<purchaseVars, restVars>>

award_observation_points(user_id, observation_id) ==
    /\ Award("award_observation_points",
             ScanStop(points_history_database, user_id, "observation_id",
                      observation_id),
             "observation_id", "Points already awarded for this observation",
             observation_points,
             [user_id |-> user_id, observation_id |-> observation_id,
              award_type |-> "observation_published",
              points |-> observation_points, awarded_at |-> now])
    /\ UNCHANGED <<purchaseVars, restVars>>

\* a balance test that also refuses a cost equal to the balance
Insufficient_OffByOne(balance, cost) == balance <= cost

\* the balance test of both redemption functions
Insufficient(balance, cost) == balance < cost

redeem_points(user_id, item_id, cost) ==
    /\ IF Insufficient(user_profile.fhir_points, cost)
       THEN /\ result' = Return("redeem_points",
                                [success |-> FALSE, error |-> "Insufficient points"])
            /\ user_profile' = user_profile
       ELSE /\ user_profile' = [user_profile EXCEPT !.fhir_points = @ - cost]
            /\ result' = Return("redeem_points",
                                [success |-> TRUE, item_id |-> item_id, cost |-> cost,
                                 remaining_points |-> user_profile'.fhir_points])
    /\ UNCHANGED <<purchaseVars, points_history_database, restVars>>

attempt_redemption(user_id, item_id, cost) ==
    /\ IF Insufficient(user_profile.fhir_points, cost)
       THEN /\ result' = Return("attempt_redemption",
                                [success |-> FALSE, error |-> "Insufficient points",
                                 required |-> cost,
                                 available |-> user_profile.fhir_points,
                                 shortfall |-> cost - user_profile.fhir_points])
            /\ user_profile' = user_profile
       ELSE /\ user_profile' = [user_profile EXCEPT !.fhir_points = @ - cost]
            /\ result' = Return("attempt_redemption", [success |-> TRUE])
    /\ UNCHANGED <<purchaseVars, points_history_database, restVars>>

Deductions == {0, 50, 200}

\* a test that lets every deduction through
WouldBeNegative_Never(balance, points_to_deduct) == FALSE

\* user_profile['fhir_points'] - points_to_deduct < 0
WouldBeNegative(balance, points_to_deduct) == balance - points_to_deduct < 0

safe_point_deduction(user_id, points_to_deduct) ==
    /\ IF WouldBeNegative(user_profile.fhir_points, points_to_deduct)
       THEN /\ result' = Return("safe_point_deduction",
                                [success |-> FALSE,
                                 error |-> "Operation would result in negative balance"])
            /\ user_profile' = user_profile
       ELSE /\ user_profile' =
                    [user_profile EXCEPT !.fhir_points = @ - points_to_deduct]
            /\ result' = Return("safe_point_deduction",
                                [success |-> TRUE,
                                 new_balance |-> user_profile'.fhir_points])
    /\ UNCHANGED <<purchaseVars, points_history_database, restVars>>

(***************************************************************************)
(* thread_safe_redemption of test_concurrent_redemption_prevention, one    *)
(* call per thread, a statement at a time.                                 *)
(***************************************************************************)
Threads == 1..MaxThreads

RedemptionCosts == {50, 100}

\* a thread that is in no call
Idle == [pc |-> "idle"]

\* the statements of a call between setting the lock and releasing it
Critical == {"test_balance", "decrement", "return", "release"}

\* a test of the flag that lets every call through
Locked_Never(lock) == FALSE

\* if redemption_lock:
Locked(lock) == lock

\* the call starts and tests the flag; a set flag ends the call
TestLock(t, user_id, item_id, cost) ==
    /\ calls[t].pc = "idle"
    /\ IF Locked(redemption_lock)
       THEN /\ result' = Return("thread_safe_redemption",
                                [success |-> FALSE,
                                 error |-> "Another redemption in progress"])
            /\ calls' = calls
       ELSE /\ calls' = [calls EXCEPT ![t] = [pc |-> "set_lock", cost |-> cost]]
            /\ result' = result
    /\ UNCHANGED <<redemption_lock, user_profile, notLockVars>>

\* redemption_lock = True
SetLock(t) ==
    /\ calls[t].pc = "set_lock"
    /\ redemption_lock' = TRUE
    /\ calls' = [calls EXCEPT ![t].pc = "test_balance"]
    /\ UNCHANGED <<user_profile, result, notLockVars>>

\* if user_profile['fhir_points'] < cost: the return value waits for the
\* finally block
TestBalance(t) ==
    /\ calls[t].pc = "test_balance"
    /\ calls' = [calls EXCEPT ![t] =
                    IF Insufficient(user_profile.fhir_points, calls[t].cost)
                    THEN [pc |-> "release", cost |-> calls[t].cost,
                          ret |-> [success |-> FALSE,
                                   error |-> "Insufficient points"]]
                    ELSE [pc |-> "decrement", cost |-> calls[t].cost]]
    /\ UNCHANGED <<redemption_lock, user_profile, result, notLockVars>>

\* user_profile['fhir_points'] -= cost
Decrement(t) ==
    /\ calls[t].pc = "decrement"
    /\ user_profile' = [user_profile EXCEPT !.fhir_points = @ - calls[t].cost]
    /\ calls' = [calls EXCEPT ![t].pc = "return"]
    /\ UNCHANGED <<redemption_lock, result, notLockVars>>

\* return {'success': True, 'remaining_points': user_profile['fhir_points']}:
\* the value is built before the finally block runs
ReturnValue(t) ==
    /\ calls[t].pc = "return"
    /\ calls' = [calls EXCEPT ![t] =
                    [pc |-> "release", cost |-> calls[t].cost,
                     ret |-> [success |-> TRUE,
                              remaining_points |-> user_profile.fhir_points]]]
    /\ UNCHANGED <<redemption_lock, user_profile, result, notLockVars>>

\* a release that is skipped when the redemption was refused
Release_OnSuccessOnly(t) ==
    /\ calls[t].pc = "release"
    /\ redemption_lock' = IF calls[t].ret.success THEN FALSE ELSE redemption_lock
    /\ result' = Return("thread_safe_redemption", calls[t].ret)
    /\ calls' = [calls EXCEPT ![t] = Idle]
    /\ UNCHANGED <<user_profile, notLockVars>>

\* finally: redemption_lock = False, and the call returns
Release(t) ==
    /\ calls[t].pc = "release"
    /\ redemption_lock' = FALSE
    /\ result' = Return("thread_safe_redemption", calls[t].ret)
    /\ calls' = [calls EXCEPT ![t] = Idle]
    /\ UNCHANGED <<user_profile, notLockVars>>

(***************************************************************************)
(* The authentication guards: tests/backend/auth_guards.py                 *)
(***************************************************************************)
\* None where a dictionary is expected
NoneObject == [none |-> TRUE]

\* the dictionary {}
EmptyDict == [k \in {} |-> TRUE]

\* truth value of an optional dictionary: None and {} are falsy
TruthyDict(d) == d # NoneObject /\ DOMAIN d # {}

AuthUserIds == {"user-123", "admin-456", "instructor-789"}
Roles == {"student", "admin", "instructor"}

\* a profile with a role, one without the key, and an empty one
Profiles(id) == {[id |-> id, role |-> r] : r \in Roles} \cup {[id |-> id], EmptyDict}

\* the user objects of a request: the fixtures' shape with every profile,
\* the same without the 'profile' key, the empty dictionary and None
Users ==
    UNION {{[claims |-> [sub |-> id], profile |-> p] : p \in Profiles(id)}
           \cup {[claims |-> [sub |-> id]]} : id \in AuthUserIds}
    \cup {EmptyDict, NoneObject}

\* MockResponse(): nothing sent yet
FreshResponse == [status_code |-> None, json_data |-> NoneObject, sent |-> FALSE]

\* res.status(code).json(data)
Respond(code, data) == [status_code |-> code, json_data |-> data, sent |-> TRUE]

\* req = MockRequest(user=user), res = MockResponse(), next_called = Mock();
\* isAuthenticated returns bool(user) unless the test replaces it
MockRequest(user, isAuthenticated) ==
    /\ req' = [user |-> user, isAuthenticated |-> isAuthenticated]
    /\ res' = FreshResponse
    /\ next_called' = FALSE
    /\ result' = ReturnNone("MockRequest")
    /\ UNCHANGED notAuthVars

\* a guard is handed a response nothing was sent on and a next not yet called
Fresh == ~res.sent /\ ~next_called

\* a condition that forgets the user object
UserAllowed_AuthenticatedOnly(r) == r.isAuthenticated

\* req.isAuthenticated() and req.user
UserAllowed(r) == r.isAuthenticated /\ TruthyDict(r.user)

require_user ==
    /\ Fresh
    /\ IF UserAllowed(req)
       THEN /\ next_called' = TRUE
            /\ res' = res
       ELSE /\ res' = Respond(401, [message |-> "Unauthorized"])
            /\ next_called' = next_called
    /\ result' = ReturnNone("require_user")
    /\ UNCHANGED <<req, notAuthVars>>

\* req.user.get('profile', {}).get('role')
ProfileRole(user) ==
    LET profile == IF "profile" \in DOMAIN user THEN user.profile ELSE EmptyDict
    IN IF "role" \in DOMAIN profile THEN {profile.role} ELSE {}

\* a condition that lets every role through
AdminAllowed_AnyRole(r) == r.isAuthenticated /\ TruthyDict(r.user)

\* req.isAuthenticated() and req.user and
\* req.user.get('profile', {}).get('role') == 'admin'
AdminAllowed(r) ==
    /\ r.isAuthenticated
    /\ TruthyDict(r.user)
    /\ ProfileRole(r.user) = {"admin"}

require_admin ==
    /\ Fresh
    /\ IF AdminAllowed(req)
       THEN /\ next_called' = TRUE
            /\ res' = res
       ELSE /\ res' = Respond(403, [message |-> "Admin access required"])
            /\ next_called' = next_called
    /\ result' = ReturnNone("require_admin")
    /\ UNCHANGED <<req, notAuthVars>>

(***************************************************************************)
(* The certificates: tests/backend/certificates.py                         *)
(***************************************************************************)
EnrollmentIds == {"enrollment-123", "enrollment-456"}

\* the completed_enrollment and incomplete_enrollment fixtures, and their
\* copies with another completed flag, completion time or progress
CertificateEnrollments ==
    {[id |-> id, user_id |-> "user-456", course_slug |-> "health-data-bootcamp",
      progress |-> [total_steps |-> 10, completed_steps |-> steps],
      completed |-> completed, completed_at |-> completed_at] :
        id \in EnrollmentIds, steps \in {7, 10}, completed \in BOOLEAN,
        completed_at \in {t \in Times : t <= now} \cup {None}}

\* the user_profile fixture of the certificate tests
certificate_user ==
    [id |-> "user-456", email |-> "student@test.com", full_name |-> "John Smith"]

\* the course_data fixture
course_data ==
    [slug |-> "health-data-bootcamp",
     title |-> "3-Day Health Data Bootcamp: Ingest, Transform & Operationalize"]

\* d.strftime(format): the text of d in that format
strftime(d, format) == [strftime |-> format, of |-> d]

\* d.isoformat()
isoformat(d) == [isoformat |-> d]

\* f"cert_{enrollment['id']}"
CertificateId(enrollment) == "cert_" \o enrollment.id

\* a test that takes every enrollment for a completed one
Completed_Always(enrollment) == TRUE

\* enrollment['completed']
Completed(enrollment) == enrollment.completed

generate_certificate(enrollment, user, course) ==
    /\ IF ~Completed(enrollment)
       THEN result' = ReturnNone("generate_certificate")
       ELSE IF enrollment.completed_at = None
       THEN result' = Raise("generate_certificate", "AttributeError")
       ELSE result' = Return("generate_certificate",
                [certificate_id |-> CertificateId(enrollment),
                 user_name |-> user.full_name,
                 course_title |-> course.title,
                 completion_date |-> strftime(enrollment.completed_at, "%Y-%m-%d"),
                 verification_url |->
                     "https://app.com/verify/cert_" \o enrollment.id])
    /\ UNCHANGED <<certVars, notCertVars>>

\* the canvas is a mock: nothing is written and the buffer stays empty
create_certificate_pdf(enrollment, user, course) ==
    /\ IF ~Completed(enrollment)
       THEN result' = ReturnNone("create_certificate_pdf")
       ELSE IF enrollment.completed_at = None
       THEN result' = Raise("create_certificate_pdf", "AttributeError")
       ELSE result' = Return("create_certificate_pdf",
                [pdf_path |-> "/certificates/" \o CertificateId(enrollment) \o ".pdf",
                 certificate_id |-> CertificateId(enrollment),
                 file_size |-> 0])
    /\ UNCHANGED <<certVars, notCertVars>>

attempt_certificate_generation(enrollment, user, course) ==
    /\ IF ~Completed(enrollment)
       THEN result' = Return("attempt_certificate_generation",
                [success |-> FALSE,
                 error |-> "Course must be completed before certificate generation",
                 completion_status |-> enrollment.completed,
                 progress |-> enrollment.progress])
       ELSE result' = Return("attempt_certificate_generation",
                [success |-> TRUE, certificate_id |-> CertificateId(enrollment)])
    /\ UNCHANGED <<certVars, notCertVars>>

CertificateIds == {"cert_" \o id : id \in EnrollmentIds}

\* the ids handed to verify_certificate and revoke_certificate
LookupIds == CertificateIds \cup {"cert_nonexistent"}

Reasons == {"Course content updated", "Issued in error"}

\* a record of the certificate database, as the verification test stores it
StoredCertificate(certificate_id) ==
    [certificate_id |-> certificate_id, user_id |-> "user-456",
     course_slug |-> "health-data-bootcamp", issued_at |-> 1, valid |-> TRUE]

\* the databases the tests start from: some of the certificates, all valid
CertificateDatabases ==
    {[id \in ids |-> StoredCertificate(id)] : ids \in SUBSET CertificateIds}

\* a test that takes every stored certificate for a valid one
Revoked_Never(cert_data) == FALSE

\* not cert_data['valid']
Revoked(cert_data) == ~cert_data.valid

verify_certificate(certificate_id) ==
    /\ IF certificate_id \notin DOMAIN certificate_database
       THEN result' = Return("verify_certificate",
                [valid |-> FALSE, error |-> "Certificate not found"])
       ELSE LET cert_data == certificate_database[certificate_id]
            IN IF Revoked(cert_data)
               THEN result' = Return("verify_certificate",
                        [valid |-> FALSE, error |-> "Certificate has been revoked"])
               ELSE result' = Return("verify_certificate",
                        [valid |-> TRUE,
                         certificate_id |-> cert_data.certificate_id,
                         user_id |-> cert_data.user_id,
                         course_slug |-> cert_data.course_slug,
                         issued_at |-> isoformat(cert_data.issued_at),
                         verification_timestamp |-> isoformat(now)])
    /\ UNCHANGED <<certVars, notCertVars>>

\* a revocation that records the time and the reason and leaves the flag
RevokedCertificate_StillValid(cert_data, t, reason) ==
    SetItem(SetItem(cert_data, "revoked_at", t), "revocation_reason", reason)

\* the three assignments of revoke_certificate
RevokedCertificate(cert_data, t, reason) ==
    SetItem(SetItem(SetItem(cert_data, "valid", FALSE), "revoked_at", t),
            "revocation_reason", reason)

revoke_certificate(certificate_id, reason) ==
    /\ IF certificate_id \in DOMAIN certificate_database
       THEN /\ certificate_database' =
                    [certificate_database EXCEPT ![certificate_id] =
                        RevokedCertificate(@, now, reason)]
            /\ result' = Return("revoke_certificate", TRUE)
       ELSE /\ certificate_database' = certificate_database
            /\ result' = Return("revoke_certificate", FALSE)
    /\ UNCHANGED notCertVars

(***************************************************************************)
(* Row level security: tests/backend/rls_smoke_tests.py                    *)
(***************************************************************************)
\* None in a field that otherwise holds a string
NoneString == "None"

\* truth value of an optional string: None and '' are falsy
TruthyString(x) == x # NoneString /\ x # ""

user_a_session ==
    [user_id |-> "user-aaa-111", email |-> "usera@test.com", role |-> "student"]

user_b_session ==
    [user_id |-> "user-bbb-222", email |-> "userb@test.com", role |-> "student"]

admin_session ==
    [user_id |-> "admin-ccc-333", email |-> "admin@test.com", role |-> "admin"]

Sessions == {user_a_session, user_b_session, admin_session}

SessionUserIds == {session.user_id : session \in Sessions}

\* the enrollment_database fixture
enrollment_fixture ==
    <<[id |-> "enrollment-001", user_id |-> "user-aaa-111", course_slug |-> "fhir-101",
       progress |-> [completed_steps |-> 8, total_steps |-> 10],
       completed |-> FALSE, certificate_url |-> NoneString],
      [id |-> "enrollment-002", user_id |-> "user-bbb-222", course_slug |-> "fhir-101",
       progress |-> [completed_steps |-> 10, total_steps |-> 10],
       completed |-> TRUE,
       certificate_url |-> "https://cdn.app.com/certs/cert-002.pdf"],
      [id |-> "enrollment-003", user_id |-> "user-aaa-111",
       course_slug |-> "health-data-bootcamp",
       progress |-> [completed_steps |-> 5, total_steps |-> 15],
       completed |-> FALSE, certificate_url |-> NoneString]>>

\* the ids handed to update_enrollment
UpdatedIds == {"enrollment-001", "enrollment-002", "enrollment-003", "enrollment-999"}

\* the updates dictionaries handed to update_enrollment
Updates ==
    {[completed |-> FALSE],
     [progress |-> [completed_steps |-> 9, total_steps |-> 10]],
     [user_id |-> "user-bbb-222"]}

\* a filter that lets every row through
OwnRow_Every(enrollment, session) == TRUE

\* enrollment['user_id'] == session['user_id']
OwnRow(enrollment, session) == enrollment.user_id = session.user_id

\* [enrollment for enrollment in enrollment_db if ...]
OwnRows(session, enrollment_db) ==
    SelectSeq(enrollment_db, LAMBDA enrollment : OwnRow(enrollment, session))

get_user_enrollments(session) ==
    /\ result' = Return("get_user_enrollments", OwnRows(session, enrollment_database))
    /\ UNCHANGED <<rlsVars, notRlsVars>>

get_enrollments_for_role(session) ==
    /\ result' = Return("get_enrollments_for_role",
                        IF session.role = "admin"
                        THEN enrollment_database
                        ELSE OwnRows(session, enrollment_database))
    /\ UNCHANGED <<rlsVars, notRlsVars>>

attempt_cross_user_access(session, target_user_id) ==
    /\ result' = Return("attempt_cross_user_access",
                        SelectSeq(OwnRows(session, enrollment_database),
                                  LAMBDA e : e.user_id = target_user_id))
    /\ UNCHANGED <<rlsVars, notRlsVars>>

get_user_certificates(session) ==
    /\ LET user_enrollments ==
               SelectSeq(OwnRows(session, enrollment_database),
                         LAMBDA e : TruthyString(e.certificate_url))
       IN result' = Return("get_user_certificates",
                           [i \in 1..Len(user_enrollments) |->
                               user_enrollments[i].certificate_url])
    /\ UNCHANGED <<rlsVars, notRlsVars>>

\* next((e for e in enrollment_db if e['id'] == enrollment_id), None): the
\* position of the first enrollment with that id, 0 for None
FindEnrollment(enrollment_db, enrollment_id) ==
    IF \E i \in 1..Len(enrollment_db) : enrollment_db[i].id = enrollment_id
    THEN CHOOSE i \in 1..Len(enrollment_db) :
            /\ enrollment_db[i].id = enrollment_id
            /\ \A j \in 1..(i - 1) : enrollment_db[j].id # enrollment_id
    ELSE 0

\* d.update(updates)
DictUpdate(d, updates) ==
    [k \in DOMAIN d \cup DOMAIN updates |->
        IF k \in DOMAIN updates THEN updates[k] ELSE d[k]]

\* a check that refuses nobody
Denied_Never(enrollment, session) == FALSE

\* enrollment['user_id'] != session['user_id']
Denied(enrollment, session) == enrollment.user_id # session.user_id

update_enrollment(session, enrollment_id, updates) ==
    /\ LET i == FindEnrollment(enrollment_database, enrollment_id)
       IN IF i = 0
          THEN /\ result' = Return("update_enrollment",
                       [success |-> FALSE, error |-> "Enrollment not found"])
               /\ enrollment_database' = enrollment_database
          ELSE IF Denied(enrollment_database[i], session)
          THEN /\ result' = Return("update_enrollment",
                       [success |-> FALSE, error |-> "Access denied"])
               /\ enrollment_database' = enrollment_database
          ELSE /\ enrollment_database' =
                       [enrollment_database EXCEPT ![i] = DictUpdate(@, updates)]
               /\ result' = Return("update_enrollment",
                       [success |-> TRUE, enrollment |-> enrollment_database'[i]])
    /\ UNCHANGED notRlsVars

CourseSlugs == {"advanced-fhir", "malicious-course"}

\* the enrollment is built for the session's user and returned; it is not
\* stored in the enrollment database
create_enrollment(session, course_slug) ==
    /\ result' = Return("create_enrollment",
            [id |-> "enrollment-new-" \o course_slug,
             user_id |-> session.user_id,
             course_slug |-> course_slug,
             progress |-> [completed_steps |-> 0, total_steps |-> 12],
             completed |-> FALSE,
             created_at |-> now])
    /\ UNCHANGED <<rlsVars, notRlsVars>>

(***************************************************************************)
(* The database initializer: apps/backend/db/init_db.py                    *)
(***************************************************************************)
\* the value of VITE_SUPABASE_URL or SUPABASE_SERVICE_ROLE_KEY: unset,
\* empty or set
EnvValues == {NoneString, "", "set"}

\* the two files in the order initialize_database takes them; an SQL text
\* is the sequence of the pieces that split(';') gives, each a statement
\* with the white space around it, the last one the line break that ends
\* the file
Files ==
    <<[name |-> "schema.sql",
       content |-> <<[text |-> "CREATE TABLE profiles", space |-> "\n"],
                     [text |-> "CREATE TABLE purchases", space |-> "\n"],
                     [text |-> "", space |-> "\n"]>>],
      [name |-> "policies.sql",
       content |-> <<[text |-> "ALTER TABLE profiles ENABLE ROW LEVEL SECURITY",
                      space |-> "\n"],
                     [text |-> "", space |-> "\n"]>>]>>

\* stmt.strip()
strip(piece) == piece.text

\* [stmt.strip() for stmt in sql_content.split(';') if stmt.strip()]
Statements(sql_content) ==
    LET kept == SelectSeq(sql_content, LAMBDA piece : strip(piece) # "")
    IN [i \in 1..Len(kept) |-> strip(kept[i])]

\* what requests.post does: it returns a response with a status code or it
\* raises, a requests.RequestException or another exception
Status(code) == [status_code |-> code]
Raises(exc) == [raises |-> exc]

SqlResponses ==
    {Status(200), Status(404), Status(500), Raises("ConnectionError"), Raises("TypeError")}

\* the answers of the server to the statements of an SQL text, one by one
FallbackResponses(sql_content) ==
    [1..Len(Statements(sql_content)) ->
        {Status(200), Status(201), Status(204), Status(500), Raises("ConnectionError")}]

\* a requests.post call and what came of it
Post(url, payload, response) ==
    [url |-> url, payload |-> payload, response |-> response]

\* the statements are posted one by one until a post raises; a status that
\* is not in [200, 201, 204] is logged as a warning and the loop goes on
execute_sql_fallback(sql_content, responses) ==
    LET statements == Statements(sql_content)
        raised == {i \in 1..Len(statements) : "raises" \in DOMAIN responses[i]}
        last == IF raised = {}
                THEN Len(statements)
                ELSE CHOOSE i \in raised : \A j \in raised : i <= j
    IN [ret |-> raised = {},
        posted |-> [i \in 1..last |->
                        Post("/rest/v1/rpc/exec", [statement |-> statements[i]],
                             responses[i])],
        warnings |-> {i \in 1..last :
                        /\ i \notin raised
                        /\ responses[i].status_code \notin {200, 201, 204}}]

\* a test that takes every status but 404 for a success
Succeeded_Always(response) == TRUE

\* response.status_code == 200
Succeeded(response) == response.status_code = 200

\* the text is posted to exec_sql; 404 hands over to the fallback, 200 is a
\* success, every other status and every exception is a failure
execute_sql(sql_content, response, responses) ==
    LET post == Post("/rest/v1/rpc/exec_sql", [sql |-> sql_content], response)
    IN IF "raises" \in DOMAIN response
       THEN [ret |-> FALSE, posted |-> <<post>>, warnings |-> {}]
       ELSE IF response.status_code = 404
       THEN LET fallback == execute_sql_fallback(sql_content, responses)
            IN [ret |-> fallback.ret, posted |-> <<post>> \o fallback.posted,
                warnings |-> fallback.warnings]
       ELSE IF Succeeded(response)
       THEN [ret |-> TRUE, posted |-> <<post>>, warnings |-> {}]
       ELSE [ret |-> FALSE, posted |-> <<post>>, warnings |-> {}]

\* a test of the environment that asks only for the URL
Configured_UrlOnly(url, key) == TruthyString(url)

\* neither 'if not self.supabase_url' nor 'if not self.service_key' raises
Configured(url, key) == TruthyString(url) /\ TruthyString(key)

\* main() builds the initializer; a ValueError of the constructor ends main
\* with sys.exit(1), otherwise initialize_database starts with success = True
SupabaseDBInitializer(url, key) ==
    /\ initializer.pc = "main"
    /\ IF Configured(url, key)
       THEN /\ initializer' = [pc |-> "read", file |-> 1, success |-> TRUE, steps |-> <<>>]
            /\ result' = ReturnNone("SupabaseDBInitializer")
            /\ exit_code' = exit_code
       ELSE /\ initializer' = [initializer EXCEPT !.pc = "exited"]
            /\ result' = Raise("SupabaseDBInitializer", "ValueError")
            /\ exit_code' = 1
    /\ UNCHANGED <<posted, notInitializerVars>>

\* the step after a file is done with: the next file, or the return
AfterFile(i) ==
    [i EXCEPT !.pc = IF i.file < Len(Files) THEN "read" ELSE "return",
              !.file = IF i.file < Len(Files) THEN @ + 1 ELSE @]

\* self.read_sql_file(file): the text, or an exception that the except
\* clause of initialize_database turns into success = False
read_sql_file(outcome) ==
    /\ initializer.pc = "read"
    /\ IF outcome = "read"
       THEN /\ initializer' = [initializer EXCEPT !.pc = "exec"]
            /\ result' = Return("read_sql_file", Files[initializer.file].name)
       ELSE /\ initializer' =
                    [AfterFile(initializer) EXCEPT
                        !.success = FALSE,
                        !.steps = Append(@, [file |-> Files[initializer.file].name,
                                             read |-> FALSE, executed |-> FALSE])]
            /\ result' = Raise("read_sql_file", outcome)
    /\ UNCHANGED <<posted, exit_code, notInitializerVars>>

\* if not self.execute_sql(sql, description): success = False
ExecuteSql(response, responses) ==
    /\ initializer.pc = "exec"
    /\ responses \in FallbackResponses(Files[initializer.file].content)
    /\ LET executed == execute_sql(Files[initializer.file].content, response, responses)
       IN /\ posted' = posted \o executed.posted
          /\ result' = Return("execute_sql", executed.ret)
          /\ initializer' =
                [AfterFile(initializer) EXCEPT
                    !.success = @ /\ executed.ret,
                    !.steps = Append(@, [file |-> Files[initializer.file].name,
                                         read |-> TRUE, executed |-> executed.ret])]
    /\ UNCHANGED <<exit_code, notInitializerVars>>

\* return success
initialize_database ==
    /\ initializer.pc = "return"
    /\ initializer' = [initializer EXCEPT !.pc = "exit"]
    /\ result' = Return("initialize_database", initializer.success)
    /\ UNCHANGED <<posted, exit_code, notInitializerVars>>

\* sys.exit(0 if success else 1)
sys_exit ==
    /\ initializer.pc = "exit"
    /\ initializer' = [initializer EXCEPT !.pc = "exited"]
    /\ exit_code' = IF result.value THEN 0 ELSE 1
    /\ UNCHANGED <<posted, result, notInitializerVars>>

\* the user interrupts main between two steps of initialize_database
KeyboardInterrupt ==
    /\ initializer.pc \in {"read", "exec", "return"}
    /\ initializer' = [initializer EXCEPT !.pc = "exited"]
    /\ result' = Raise("main", "KeyboardInterrupt")
    /\ exit_code' = 1
    /\ UNCHANGED <<posted, notInitializerVars>>

InitInitializer ==
    /\ initializer = [pc |-> "main", file |-> 1, success |-> TRUE, steps |-> <<>>]
    /\ posted = <<>>
    /\ exit_code = None

(***************************************************************************)
(* The commerce seeder: apps/backend/db/seed.py                            *)
(*                                                                         *)
(* A table is the set of its rows. A step writes its rows in order until   *)
(* an execute raises: it is handed the number of rows that get written.    *)
(***************************************************************************)
\* the value of STRIPE_PRICE_IDS_JSON: no price ids, or one for every product
StripeConfigs ==
    {EmptyDict,
     [bootcamp_basic |-> "price_live_basic", bootcamp_plus |-> "price_live_plus",
      course_fhir101 |-> "price_live_fhir101"]}

\* the rows of the four seed_all steps, in the order of their lists
ProductRows ==
    <<[sku |-> "bootcamp_basic", name |-> "FHIR Bootcamp - Basic Access", active |-> TRUE],
      [sku |-> "bootcamp_plus", name |-> "FHIR Bootcamp - Plus Access", active |-> TRUE],
      [sku |-> "course_fhir101", name |-> "FHIR 101 - Fundamentals Course", active |-> TRUE]>>

\* stripe_price_id is self.stripe_price_ids.get(sku, default)
PriceRows(stripe_price_ids) ==
    LET get(sku, default) ==
            IF sku \in DOMAIN stripe_price_ids THEN stripe_price_ids[sku] ELSE default
    IN <<[product_sku |-> "bootcamp_basic",
          stripe_price_id |-> get("bootcamp_basic", "price_demo_basic"),
          currency |-> "usd", unit_amount |-> 29900],
         [product_sku |-> "bootcamp_plus",
          stripe_price_id |-> get("bootcamp_plus", "price_demo_plus"),
          currency |-> "usd", unit_amount |-> 59900],
         [product_sku |-> "course_fhir101",
          stripe_price_id |-> get("course_fhir101", "price_demo_fhir101"),
          currency |-> "usd", unit_amount |-> 9900]>>

CourseRows ==
    <<[slug |-> "fhir-101", requires_product_sku |-> NoneString, is_free |-> TRUE],
      [slug |-> "health-data-bootcamp", requires_product_sku |-> "bootcamp_basic",
       is_free |-> FALSE],
      [slug |-> "fhir-deep-dive", requires_product_sku |-> "bootcamp_plus",
       is_free |-> FALSE]>>

BadgeRows ==
    <<[code |-> "BYOD_CHAMP", points |-> 50],
      [code |-> "FHIR_LOOP_CLOSER", points |-> 75],
      [code |-> "QUIZ_MASTER", points |-> 25]>>

\* an insert that adds a row beside the one that has its key
Upsert_Duplicate(table, key, row) ==
    IF \E old \in table : \A k \in key : old[k] = row[k]
    THEN table \cup {[c \in DOMAIN row \cup {"duplicate"} |->
                        IF c = "duplicate" THEN TRUE ELSE row[c]]}
    ELSE table \cup {row}

\* INSERT ... ON CONFLICT (key) DO UPDATE SET every other column
Upsert(table, key, row) ==
    {old \in table : \E k \in key : old[k] # row[k]} \cup {row}

\* the first count rows of a list upserted one after the other
RECURSIVE UpsertRows(_, _, _, _)
UpsertRows(table, key, rows, count) ==
    IF count = 0
    THEN table
    ELSE Upsert(UpsertRows(table, key, rows, count - 1), key, rows[count])

\* main() builds a seeder from the environment: demo_user_ids is empty and
\* there is no conn attribute yet
CommerceSeeder(stripe_price_ids) ==
    /\ seeder.pc = "idle"
    /\ seeder' = [seeder EXCEPT !.stripe_price_ids = stripe_price_ids,
                                !.demo_user_ids = EmptyDict,
                                !.has_conn = FALSE, !.open = FALSE]
    /\ result' = ReturnNone("CommerceSeeder")
    /\ UNCHANGED <<database, notSeedVars>>

\* a method of the seeder is called: seed_all and seed_demo_data enter their
\* try block, a step called on its own starts
Call(method) ==
    /\ seeder.pc = "idle"
    /\ method # "connect" => seeder.started < MaxRuns
    /\ seeder' = [seeder EXCEPT
                    !.pc = IF method \in {"seed_all", "seed_demo_data"}
                           THEN "connect" ELSE method,
                    !.run = IF method \in {"seed_all", "seed_demo_data"}
                            THEN method ELSE "none",
                    !.pending = "none",
                    !.started = IF method = "connect" THEN @ ELSE @ + 1]
    /\ result' = result
    /\ UNCHANGED <<database, notSeedVars>>

seed_all == Call("seed_all")

seed_demo_data == Call("seed_demo_data")

\* a step ends: a step called on its own returns or raises, a step of a run
\* is followed by the next step or by the except and finally clauses
AfterStep(s, exc) ==
    IF s.run = "none"
    THEN [s EXCEPT !.pc = "idle"]
    ELSE IF exc # "none"
    THEN [s EXCEPT !.pc = "disconnect", !.pending = exc]
    ELSE [s EXCEPT !.pc =
            CASE s.pc = "connect" /\ s.run = "seed_all" -> "seed_products"
              [] s.pc = "seed_products" -> "seed_prices"
              [] s.pc = "seed_prices" -> "seed_courses"
              [] s.pc = "seed_courses" -> "seed_badges"
              [] s.pc = "connect" /\ s.run = "seed_demo_data" -> "seed_demo_users"
              [] s.pc = "seed_demo_users" -> "seed_demo_purchases"
              [] s.pc = "seed_demo_purchases" -> "seed_demo_enrollments"
              [] s.pc = "seed_demo_enrollments" -> "seed_demo_awards"
              [] s.pc = "seed_demo_awards" -> "seed_testimonials"
              [] OTHER -> "disconnect"]

\* self.conn = await asyncpg.connect(self.database_url)
connect(connected) ==
    /\ seeder.pc = "connect"
    /\ seeder' = IF connected
                 THEN [AfterStep(seeder, "none") EXCEPT !.has_conn = TRUE, !.open = TRUE]
                 ELSE AfterStep(seeder, "ConnectionRefusedError")
    /\ result' = IF connected
                 THEN ReturnNone("connect")
                 ELSE Raise("connect", "ConnectionRefusedError")
    /\ UNCHANGED <<database, notSeedVars>>

\* a step of seed_all: the rows of its list are upserted on the key of the
\* table until one execute raises
SeedTable(pc, table, key, rows, count) ==
    /\ seeder.pc = pc
    /\ count \in 0..Len(rows)
    /\ database' = [database EXCEPT ![table] = UpsertRows(@, key, rows, count)]
    /\ seeder' = AfterStep(seeder, IF count = Len(rows) THEN "none" ELSE "PostgresError")
    /\ result' = IF count = Len(rows)
                 THEN ReturnNone(pc)
                 ELSE Raise(pc, "PostgresError")
    /\ UNCHANGED notSeedVars

seed_products(count) ==
    SeedTable("seed_products", "products", {"sku"}, ProductRows, count)

seed_prices(count) ==
    SeedTable("seed_prices", "prices", {"stripe_price_id"},
              PriceRows(seeder.stripe_price_ids), count)

seed_courses(count) ==
    SeedTable("seed_courses", "courses", {"slug"}, CourseRows, count)

seed_badges(count) ==
    SeedTable("seed_badges", "badges", {"code"}, BadgeRows, count)

\* a test that finds a conn attribute on every seeder
HasConn_Always(s) == TRUE

\* hasattr(self, 'conn')
HasConn(s) == s.has_conn

\* finally: await self.disconnect()
disconnect ==
    /\ seeder.pc = "disconnect"
    /\ seeder' =
          IF ~HasConn(seeder)
          THEN [seeder EXCEPT !.pc = "exit"]
          ELSE IF seeder.has_conn
          THEN [seeder EXCEPT !.pc = "exit", !.open = FALSE]
          ELSE [seeder EXCEPT !.pc = "exit", !.pending = "AttributeError"]
    /\ result' = ReturnNone("disconnect")
    /\ UNCHANGED <<database, notSeedVars>>

\* the run returns, or raises what the except clause re-raised
EndRun ==
    /\ seeder.pc = "exit"
    /\ seeder' = [seeder EXCEPT !.pc = "idle", !.run = "none", !.pending = "none"]
    /\ result' = IF seeder.pending = "none"
                 THEN ReturnNone(seeder.run)
                 ELSE Raise(seeder.run, seeder.pending)
    /\ UNCHANGED <<database, notSeedVars>>

\* what self.conn.execute raises before it reaches the server
ConnExc(s) ==
    IF ~s.has_conn THEN "AttributeError"
    ELSE IF ~s.open THEN "InterfaceError"
    ELSE "none"

\* str(uuid.uuid4()): the values of one call of seed_demo_users differ from
\* those of every other call
Uuid(n, email) == [uuid4 |-> n, email |-> email]

\* seed_demo_users: every user is recorded in demo_user_ids before its
\* insert is executed
seed_demo_users(count) ==
    /\ seeder.pc = "seed_demo_users"
    /\ ConnExc(seeder) # "none" => count = 0
    /\ LET DemoUsers ==
               <<[email |-> "instructor.demo@fhirbootcamp.com", role |-> "instructor"],
                 [email |-> "student1.demo@fhirbootcamp.com", role |-> "student"],
                 [email |-> "student2.demo@fhirbootcamp.com", role |-> "student"],
                 [email |-> "student3.demo@fhirbootcamp.com", role |-> "student"]>>
           n == seeder.uuids + 1
           exc == IF ConnExc(seeder) # "none" THEN ConnExc(seeder)
                  ELSE IF count < Len(DemoUsers) THEN "PostgresError"
                  ELSE "none"
           recorded == {DemoUsers[i].email :
                          i \in {j \in 1..Len(DemoUsers) : j <= count + 1}}
           rows == [i \in 1..Len(DemoUsers) |->
                      [id |-> Uuid(n, DemoUsers[i].email), email |-> DemoUsers[i].email,
                       role |-> DemoUsers[i].role]]
       IN /\ count \in 0..Len(DemoUsers)
          /\ database' = [database EXCEPT
                            !.profiles = UpsertRows(@, {"id"}, rows, count)]
          /\ seeder' = [AfterStep(seeder, exc) EXCEPT
                          !.uuids = n,
                          !.demo_user_ids =
                              [e \in DOMAIN @ \cup recorded |->
                                 IF e \in recorded THEN Uuid(n, e) ELSE @[e]]]
          /\ result' = IF exc = "none"
                       THEN ReturnNone("seed_demo_users")
                       ELSE Raise("seed_demo_users", exc)
    /\ UNCHANGED notSeedVars

\* a user id read from another place than demo_user_ids
UserId_Unrecorded(ids, email) == Uuid(0, email)

\* self.demo_user_ids[email]
UserId(ids, email) == ids[email]

\* the row that is inserted for an entry of a demo list: its user_id is
\* looked up by email, its id is the next of the table's serial when the
\* statement gives none
DemoRow(entry, ids, id) ==
    [c \in (DOMAIN entry \ {"email"})
             \cup (IF "email" \in DOMAIN entry THEN {"user_id"} ELSE {})
             \cup (IF id # None THEN {"id"} ELSE {}) |->
        IF c = "user_id" THEN UserId(ids, entry.email)
        ELSE IF c = "id" THEN id
        ELSE entry[c]]

\* a demo step: the whole list is built first (a KeyError for an email that
\* demo_user_ids does not hold), then its rows are inserted until one
\* execute raises
SeedDemoRows(pc, table, key, entries, count) ==
    /\ seeder.pc = pc
    /\ count \in 0..Len(entries)
    /\ LET ids == seeder.demo_user_ids
           missing == \E i \in 1..Len(entries) :
                          /\ "email" \in DOMAIN entries[i]
                          /\ entries[i].email \notin DOMAIN ids
           exc == IF missing THEN "KeyError"
                  ELSE IF ConnExc(seeder) # "none" THEN ConnExc(seeder)
                  ELSE IF count < Len(entries) THEN "PostgresError"
                  ELSE "none"
       IN /\ exc \notin {"none", "PostgresError"} => count = 0
          /\ database' =
                IF exc \in {"none", "PostgresError"}
                THEN [database EXCEPT ![table] =
                        UpsertRows(@, key,
                                   [i \in 1..Len(entries) |->
                                      DemoRow(entries[i], ids,
                                              IF key = {"id"}
                                              THEN Cardinality(database[table]) + i
                                              ELSE None)],
                                   count)]
                ELSE database
          /\ seeder' = AfterStep(seeder, exc)
          /\ result' = IF exc = "none" THEN ReturnNone(pc) ELSE Raise(pc, exc)
    /\ UNCHANGED notSeedVars

seed_demo_purchases(count) ==
    SeedDemoRows("seed_demo_purchases", "purchases", {"id"},
        <<[email |-> "student1.demo@fhirbootcamp.com", product_sku |-> "bootcamp_basic",
           status |-> "active"],
          [email |-> "student2.demo@fhirbootcamp.com", product_sku |-> "bootcamp_plus",
           status |-> "trialing"],
          [email |-> "student3.demo@fhirbootcamp.com", product_sku |-> "bootcamp_plus",
           status |-> "active"]>>,
        count)

seed_demo_enrollments(count) ==
    SeedDemoRows("seed_demo_enrollments", "enrollments", {"user_id", "course_slug"},
        <<[email |-> "student1.demo@fhirbootcamp.com", course_slug |-> "fhir-101",
           completed |-> TRUE],
          [email |-> "student1.demo@fhirbootcamp.com", course_slug |-> "health-data-bootcamp",
           completed |-> FALSE],
          [email |-> "student2.demo@fhirbootcamp.com", course_slug |-> "fhir-101",
           completed |-> FALSE],
          [email |-> "student3.demo@fhirbootcamp.com", course_slug |-> "fhir-101",
           completed |-> TRUE],
          [email |-> "student3.demo@fhirbootcamp.com", course_slug |-> "health-data-bootcamp",
           completed |-> TRUE],
          [email |-> "student3.demo@fhirbootcamp.com", course_slug |-> "fhir-deep-dive",
           completed |-> FALSE]>>,
        count)

seed_demo_awards(count) ==
    SeedDemoRows("seed_demo_awards", "awards", {"user_id", "badge_code"},
        <<[email |-> "student1.demo@fhirbootcamp.com", badge_code |-> "QUIZ_MASTER",
           course_slug |-> "fhir-101"],
          [email |-> "student3.demo@fhirbootcamp.com", badge_code |-> "QUIZ_MASTER",
           course_slug |-> "fhir-101"],
          [email |-> "student3.demo@fhirbootcamp.com", badge_code |-> "FHIR_LOOP_CLOSER",
           course_slug |-> "health-data-bootcamp"],
          [email |-> "student3.demo@fhirbootcamp.com", badge_code |-> "BYOD_CHAMP",
           course_slug |-> "health-data-bootcamp"]>>,
        count)

seed_testimonials(count) ==
    SeedDemoRows("seed_testimonials", "testimonials", {"id"},
        <<[name |-> "Dr. Sarah Chen"], [name |-> "Alex Rivera"], [name |-> "Marcus Thompson"]>>,
        count)

InitSeed ==
    /\ seeder = [pc |-> "idle", run |-> "none", stripe_price_ids |-> EmptyDict,
                 demo_user_ids |-> EmptyDict, has_conn |-> FALSE, open |-> FALSE,
                 pending |-> "none", started |-> 0, uuids |-> 0]
    /\ database = [products |-> {}, prices |-> {}, courses |-> {}, badges |-> {},
                   profiles |-> {}, purchases |-> {}, enrollments |-> {},
                   awards |-> {}, testimonials |-> {}]

(***************************************************************************)
(* The state after the fixtures are built.                                 *)
(***************************************************************************)
InitPurchases ==
    /\ now = 1
    /\ purchases = <<>>
    /\ processed_events = {}

InitPoints ==
    /\ user_profile = [id |-> "user-123", fhir_points |-> initial_points]
    /\ points_history_database = <<>>

InitLock ==
    /\ redemption_lock = FALSE
    /\ calls = [t \in Threads |-> Idle]

InitAuth ==
    /\ req = [user |-> NoneObject, isAuthenticated |-> FALSE]
    /\ res = FreshResponse
    /\ next_called = FALSE

InitRls == enrollment_database = enrollment_fixture

(***************************************************************************)
(* The purchase lifecycle: every handler on one purchases list.            *)
(***************************************************************************)
Init ==
    /\ InitPurchases
    /\ InitPoints
    /\ InitLock
    /\ InitAuth
    /\ certificate_database = [id \in CertificateIds |-> StoredCertificate(id)]
    /\ InitRls
    /\ InitInitializer
    /\ InitSeed
    /\ result = ReturnNone("init")

\* A handler treats every event of a type it does not handle alike: it is
\* handed the events of its own type and the unsupported ones.
NextPurchases ==
    \/ Tick
    \/ \E e \in CheckoutEvents \cup OtherEvents : process_webhook(e)
    \/ \E e \in SubscriptionCreatedEvents \cup OtherEvents :
            process_subscription_webhook(e)
    \/ \E e \in SubscriptionDeletedEvents \cup OtherEvents :
            process_cancellation_webhook(e)
    \/ \E e \in WebhookEvents : process_webhook_supported(e)
    \/ check_trial_expiration

SpecPurchases == Init /\ [][NextPurchases]_vars

(***************************************************************************)
(* Deliveries to process_webhook_idempotent alone.                         *)
(***************************************************************************)
NextIdempotent == \E e \in DeliveredEvents : process_webhook_idempotent(e)

SpecIdempotent == Init /\ [][NextIdempotent]_vars

TypeOK ==
    /\ now \in Times
    /\ result.ret \in {"None", "value", "raise"}

(***************************************************************************)
(* Awards and redemptions on one profile and one points history.           *)
(***************************************************************************)
NextPoints ==
    \/ \E u \in UserIds, q \in QuizIds, sc \in Scores : award_quiz_points(u, q, sc)
    \/ \E u \in UserIds, b \in BadgeIds : award_byod_points(u, b)
    \/ \E u \in UserIds, o \in ObservationIds : award_observation_points(u, o)
    \/ \E u \in UserIds, it \in ItemIds, c \in Costs : redeem_points(u, it, c)
    \/ \E u \in UserIds, it \in ItemIds, c \in Costs : attempt_redemption(u, it, c)
    \/ \E u \in UserIds, d \in Deductions : safe_point_deduction(u, d)

SpecPoints == Init /\ [][NextPoints]_vars

(***************************************************************************)
(* Concurrent calls of thread_safe_redemption on one profile.              *)
(***************************************************************************)
NextRedemption ==
    \/ \E t \in Threads, it \in ItemIds, c \in RedemptionCosts :
            TestLock(t, "user-123", it, c)
    \/ \E t \in Threads : SetLock(t)
    \/ \E t \in Threads : TestBalance(t)
    \/ \E t \in Threads : Decrement(t)
    \/ \E t \in Threads : ReturnValue(t)
    \/ \E t \in Threads : Release(t)

SpecRedemption == Init /\ [][NextRedemption]_vars

(***************************************************************************)
(* Requests handed to the guards.                                          *)
(***************************************************************************)
NextAuth ==
    \/ \E user \in Users, isAuthenticated \in BOOLEAN :
            MockRequest(user, isAuthenticated)
    \/ require_user
    \/ require_admin

SpecAuth == Init /\ [][NextAuth]_vars

(***************************************************************************)
(* Certificates generated, verified and revoked as time passes.            *)
(***************************************************************************)
InitCertificates ==
    /\ InitPurchases
    /\ InitPoints
    /\ InitLock
    /\ InitAuth
    /\ certificate_database \in CertificateDatabases
    /\ InitRls
    /\ InitInitializer
    /\ InitSeed
    /\ result = ReturnNone("init")

NextCertificates ==
    \/ Tick
    \/ \E e \in CertificateEnrollments :
            generate_certificate(e, certificate_user, course_data)
    \/ \E e \in CertificateEnrollments :
            create_certificate_pdf(e, certificate_user, course_data)
    \/ \E e \in CertificateEnrollments :
            attempt_certificate_generation(e, certificate_user, course_data)
    \/ \E id \in LookupIds : verify_certificate(id)
    \/ \E id \in LookupIds, reason \in Reasons : revoke_certificate(id, reason)

SpecCertificates == InitCertificates /\ [][NextCertificates]_vars

(***************************************************************************)
(* Reads and updates of the enrollments by the three sessions.             *)
(***************************************************************************)
NextRls ==
    \/ \E session \in Sessions : get_user_enrollments(session)
    \/ \E session \in Sessions : get_enrollments_for_role(session)
    \/ \E session \in Sessions, target \in SessionUserIds :
            attempt_cross_user_access(session, target)
    \/ \E session \in Sessions : get_user_certificates(session)
    \/ \E session \in Sessions, id \in UpdatedIds, updates \in Updates :
            update_enrollment(session, id, updates)
    \/ \E session \in Sessions, slug \in CourseSlugs :
            create_enrollment(session, slug)

SpecRls == Init /\ [][NextRls]_vars

(***************************************************************************)
(* One run of init_db.py: main builds the initializer, initialize_database *)
(* reads and executes the two files, main exits.                           *)
(***************************************************************************)
NextInitializer ==
    \/ \E url \in EnvValues, key \in EnvValues : SupabaseDBInitializer(url, key)
    \/ \E outcome \in {"read", "FileNotFoundError", "PermissionError"} :
            read_sql_file(outcome)
    \/ \E response \in SqlResponses,
          responses \in UNION {FallbackResponses(Files[i].content) : i \in 1..Len(Files)} :
            ExecuteSql(response, responses)
    \/ initialize_database
    \/ sys_exit
    \/ KeyboardInterrupt

SpecInitializer == Init /\ [][NextInitializer]_vars

(***************************************************************************)
(* Runs of seed_all, on one seeder or on a new one for every run.          *)
(***************************************************************************)
NextSeed ==
    \/ \E stripe_price_ids \in StripeConfigs : CommerceSeeder(stripe_price_ids)
    \/ seed_all
    \/ \E connected \in BOOLEAN : connect(connected)
    \/ \E count \in 0..Len(ProductRows) : seed_products(count)
    \/ \E count \in 0..Len(ProductRows) : seed_prices(count)
    \/ \E count \in 0..Len(CourseRows) : seed_courses(count)
    \/ \E count \in 0..Len(BadgeRows) : seed_badges(count)
    \/ disconnect
    \/ EndRun

SpecSeed == Init /\ [][NextSeed]_vars

(***************************************************************************)
(* Runs of seed_demo_data and calls of its steps on their own.             *)
(***************************************************************************)
NextDemo ==
    \/ \E stripe_price_ids \in StripeConfigs : CommerceSeeder(stripe_price_ids)
    \/ seed_demo_data
    \/ \E method \in {"connect", "seed_demo_users", "seed_demo_purchases",
                       "seed_demo_enrollments", "seed_demo_awards"} : Call(method)
    \/ \E connected \in BOOLEAN : connect(connected)
    \/ \E count \in 0..4 : seed_demo_users(count)
    \/ \E count \in 0..3 : seed_demo_purchases(count)
    \/ \E count \in 0..6 : seed_demo_enrollments(count)
    \/ \E count \in 0..4 : seed_demo_awards(count)
    \/ \E count \in 0..3 : seed_testimonials(count)
    \/ disconnect
    \/ EndRun

SpecDemo == Init /\ [][NextDemo]_vars

(***************************************************************************)
(* Properties of the purchase lifecycle.                                   *)
(***************************************************************************)
\* ps2 is ps1 with one purchase appended
Appended(ps1, ps2) ==
    /\ Len(ps2) = Len(ps1) + 1
    /\ SubSeq(ps2, 1, Len(ps1)) = ps1

C1_Delivery(e) ==
    process_webhook_idempotent(e) =>
        /\ processed_events' = processed_events \cup {e.id}
        /\ IF e.id \in processed_events
           THEN /\ result'.ret = "value"
                /\ result'.value = [status |-> "already_processed"]
                /\ purchases' = purchases
           ELSE e.type = "checkout.session.completed" =>
                    /\ result'.ret = "value"
                    /\ result'.value.status = "processed"
                    /\ Appended(purchases, purchases')

\* C1: webhook processing is idempotent on the event id. Every delivery
\* records its event id; the first delivery of a checkout.session.completed
\* event returns 'processed' and appends exactly one purchase; a delivery of
\* an id seen before returns 'already_processed' and leaves the purchases
\* unchanged; so there are never more purchases than distinct ids delivered.
C1_WebhookIdempotent ==
    /\ [](Len(purchases) <= Cardinality(processed_events))
    /\ [][\A e \in DeliveredEvents : C1_Delivery(e)]_vars

\* a duplicate delivery was suppressed after purchases had been recorded
C1_Witness ==
    /\ result.op = "process_webhook_idempotent"
    /\ result.ret = "value"
    /\ result.value.status = "already_processed"
    /\ Len(purchases) >= 2

Statuses == {"active", "trialing", "past_due", "cancelled"}

C2_Step ==
    /\ Len(purchases') >= Len(purchases)
    /\ \A i \in 1..Len(purchases') :
        IF i > Len(purchases)
        THEN purchases'[i].status \in {"active", "trialing"}
        ELSE purchases[i].status \in {"past_due", "cancelled"}
                => purchases'[i].status \in {"past_due", "cancelled"}

\* C2: the lifecycle none -> active/trialing -> past_due/cancelled. A
\* purchase is created only as active or trialing, its status is always one
\* of the four, and a past_due or cancelled purchase never becomes active or
\* trialing again.
C2_Lifecycle ==
    /\ [](\A i \in 1..Len(purchases) : purchases[i].status \in Statuses)
    /\ [][C2_Step]_vars

\* a trial that expired and was then cancelled, next to a live purchase
C2_Witness ==
    \E i, j \in 1..Len(purchases) :
        /\ purchases[i].status = "cancelled"
        /\ "trial_ends_at" \in DOMAIN purchases[i]
        /\ purchases[i].trial_ends_at # None
        /\ purchases[j].status \in {"active", "past_due"}

C3_Checkout(e) ==
    process_webhook(e) =>
        LET session == e.data.object
            new == purchases'[Len(purchases')]
        IN /\ Appended(purchases, purchases')
           /\ new.status = "active"
           /\ new.user_id = session.metadata.user_id
           /\ new.product_sku = session.metadata.product_sku
           /\ new.stripe_session_id = session.id
           /\ result' = Return("process_webhook", new)

\* C3: a checkout.session.completed event creates exactly one purchase, with
\* status 'active', the user_id and product_sku of the session metadata and
\* the session id as stripe_session_id; the purchases that existed are
\* unchanged.
C3_CheckoutCreatesPurchase ==
    [][\A e \in CheckoutEvents : C3_Checkout(e)]_vars

\* a checkout was recorded behind an earlier purchase
C3_Witness ==
    /\ result.op = "process_webhook"
    /\ result.ret = "value"
    /\ Len(purchases) = 2
    /\ purchases[2] = result.value
    /\ purchases[2].product_sku = "bootcamp_plus"
    /\ purchases[1].status # "active"

C4_Created(e) ==
    process_subscription_webhook(e) =>
        LET sub == e.data.object
            new == purchases'[Len(purchases')]
        IN /\ Appended(purchases, purchases')
           /\ new.status = "trialing" <=> sub.trial_end # None
           /\ new.status = "active" <=> sub.trial_end = None
           /\ new.trial_ends_at # None <=> new.status = "trialing"
           /\ new.stripe_subscription_id = sub.id
           /\ result' = Return("process_subscription_webhook", new)

\* C4: a customer.subscription.created event creates a purchase that is
\* 'trialing' exactly when the subscription carries a trial_end and 'active'
\* otherwise; its trial_ends_at is set exactly when it is 'trialing'.
C4_SubscriptionCreated ==
    [][\A e \in SubscriptionCreatedEvents : C4_Created(e)]_vars

\* one subscription was created with a trial and one without
C4_Witness ==
    /\ result.op = "process_subscription_webhook"
    /\ result.ret = "value"
    /\ \E i, j \in 1..Len(purchases) :
        /\ "stripe_subscription_id" \in DOMAIN purchases[i]
        /\ purchases[i].status = "trialing"
        /\ purchases[i].trial_ends_at # None
        /\ "stripe_subscription_id" \in DOMAIN purchases[j]
        /\ purchases[j].status = "active"
        /\ purchases[j].trial_ends_at = None

\* the purchases recorded for a subscription
OfSubscription(ps, id) ==
    {i \in 1..Len(ps) : /\ "stripe_subscription_id" \in DOMAIN ps[i]
                        /\ ps[i].stripe_subscription_id = id}

C5_Deleted(e) ==
    process_cancellation_webhook(e) =>
        /\ Len(purchases') = Len(purchases)
        /\ OfSubscription(purchases, e.data.object.id) # {} =>
            \E i \in OfSubscription(purchases, e.data.object.id) :
                /\ purchases'[i].status = "cancelled"
                /\ "cancelled_at" \in DOMAIN purchases'[i]
                /\ purchases'[i].cancelled_at # None
                /\ purchases'[i].user_id = purchases[i].user_id
                /\ purchases'[i].product_sku = purchases[i].product_sku

\* C5: after a customer.subscription.deleted event for subscription S the
\* existing purchase of S is 'cancelled' with a cancelled_at, whatever its
\* prior status; its user_id and product_sku are unchanged and no purchase
\* is added or removed.
C5_CancellationUpdatesStatus ==
    [][\A e \in SubscriptionDeletedEvents : C5_Deleted(e)]_vars

C6_Invalid(e) ==
    (process_webhook_supported(e) \/ process_webhook(e)) =>
        /\ result'.ret = "None"
        /\ purchases' = purchases

\* C6: an event whose type is none of checkout.session.completed,
\* customer.subscription.created, customer.subscription.deleted makes
\* process_webhook return None and leaves the purchases unchanged.
C6_InvalidIgnored ==
    [][\A e \in WebhookEvents :
          e.type \notin {"checkout.session.completed",
                         "customer.subscription.created",
                         "customer.subscription.deleted"} => C6_Invalid(e)]_vars

\* an unsupported event was refused while purchases exist
C6_Witness ==
    /\ result = ReturnNone("process_webhook_supported")
    /\ Len(purchases) > 0

C7_Check ==
    check_trial_expiration =>
        /\ Len(purchases') = Len(purchases)
        /\ \A i \in 1..Len(purchases) :
            purchases'[i] # purchases[i] =>
                /\ purchases[i].status = "trialing"
                /\ "trial_ends_at" \in DOMAIN purchases[i]
                /\ purchases[i].trial_ends_at # None
                /\ purchases[i].trial_ends_at < now
                /\ purchases'[i] = [purchases[i] EXCEPT !.status = "past_due"]

\* C7: check_trial_expiration changes a purchase only if it is 'trialing'
\* with a trial_ends_at earlier than now, and then only its status, to
\* 'past_due'; every other purchase is left unchanged.
C7_TrialExpiration == [][C7_Check]_vars

\* an expired trial became past_due next to a trial that has not expired
C7_Witness ==
    /\ result.op = "check_trial_expiration"
    /\ result.ret = "value"
    /\ result.value.status = "past_due"
    /\ \E i \in 1..Len(purchases) :
        /\ purchases[i].status = "trialing"
        /\ purchases[i].trial_ends_at >= now

(***************************************************************************)
(* Properties of the points system.                                        *)
(***************************************************************************)
\* the records of the history that carry key = value for the user
Recorded(history, user_id, key, value) ==
    {i \in 1..Len(history) : /\ history[i].user_id = user_id
                             /\ key \in DOMAIN history[i]
                             /\ history[i][key] = value}

\* the call gave the points, once
Awarded(points_awarded) ==
    /\ result'.ret = "value"
    /\ result'.value = [success |-> TRUE, points_awarded |-> points_awarded]
    /\ user_profile'.fhir_points = user_profile.fhir_points + points_awarded
    /\ Appended(points_history_database, points_history_database')

\* the call refused and changed nothing
Refused ==
    /\ result'.ret = "value"
    /\ result'.value.success = FALSE
    /\ UNCHANGED pointsVars

C8_Quiz(u, q, sc) ==
    award_quiz_points(u, q, sc) =>
        IF Recorded(points_history_database, u, "quiz_id", q) = {}
        THEN Awarded(25)
        ELSE Refused

C8_Badge(u, b) ==
    award_byod_points(u, b) =>
        IF Recorded(points_history_database, u, "badge_id", b) = {}
        THEN Awarded(50)
        ELSE Refused

\* C8: once-only award rules fire only once. The first award_quiz_points
\* call for a (user, quiz) and the first award_byod_points call for a
\* (user, badge) succeed, add 25, respectively 50, to fhir_points and append
\* one history record; every later call for the same key, whatever the
\* score, returns success False and changes neither fhir_points nor the
\* history.
C8_AwardedOnce ==
    [][/\ \A u \in UserIds, q \in QuizIds, sc \in Scores : C8_Quiz(u, q, sc)
       /\ \A u \in UserIds, b \in BadgeIds : C8_Badge(u, b)]_vars

C9_Observation(u, o) ==
    award_observation_points(u, o) =>
        IF Recorded(points_history_database, u, "observation_id", o) = {}
        THEN Awarded(10)
        ELSE Refused

\* C9: award_observation_points gives 10 points for every distinct
\* observation id of a user and nothing for an observation id already
\* recorded for that user (success False, fhir_points unchanged): no
\* observation is recorded twice for a user.
C9_ObservationPoints ==
    /\ [](\A u \in UserIds, o \in ObservationIds :
            Cardinality(Recorded(points_history_database, u, "observation_id", o)) <= 1)
    /\ [][\A u \in UserIds, o \in ObservationIds : C9_Observation(u, o)]_vars

\* what the claim says of the outcome of a redemption of cost c
C10_Outcome(c) ==
    /\ result'.ret = "value"
    /\ result'.value.success = (user_profile.fhir_points >= c)
    /\ IF user_profile.fhir_points >= c
       THEN /\ user_profile'.fhir_points = user_profile.fhir_points - c
            /\ "remaining_points" \in DOMAIN result'.value
            /\ result'.value.remaining_points = user_profile'.fhir_points
       ELSE /\ user_profile' = user_profile
            /\ result'.value.error = "Insufficient points"
            /\ "required" \in DOMAIN result'.value
            /\ result'.value.required = c
            /\ result'.value.available = user_profile.fhir_points
            /\ result'.value.shortfall = c - user_profile.fhir_points

\* C10 as stated: every redemption of cost c succeeds exactly when
\* fhir_points >= c; on success fhir_points decreases by c and the returned
\* remaining_points is the new balance; on failure the result is the error
\* 'Insufficient points' with required, available and shortfall, and
\* fhir_points is unchanged.
C10_RedemptionAsStated ==
    [][\A u \in UserIds, it \in ItemIds, c \in Costs :
          (redeem_points(u, it, c) \/ attempt_redemption(u, it, c))
              => C10_Outcome(c)]_vars

C10_Redeem(u, it, c) ==
    redeem_points(u, it, c) =>
        /\ result'.ret = "value"
        /\ result'.value.success = (user_profile.fhir_points >= c)
        /\ IF user_profile.fhir_points >= c
           THEN /\ user_profile'.fhir_points = user_profile.fhir_points - c
                /\ result'.value.remaining_points = user_profile'.fhir_points
           ELSE /\ user_profile' = user_profile
                /\ result'.value = [success |-> FALSE, error |-> "Insufficient points"]

C10_Attempt(u, it, c) ==
    attempt_redemption(u, it, c) =>
        /\ result'.ret = "value"
        /\ result'.value.success = (user_profile.fhir_points >= c)
        /\ IF user_profile.fhir_points >= c
           THEN /\ user_profile'.fhir_points = user_profile.fhir_points - c
                /\ result'.value = [success |-> TRUE]
           ELSE /\ user_profile' = user_profile
                /\ result'.value.error = "Insufficient points"
                /\ result'.value.required = c
                /\ result'.value.available = user_profile.fhir_points
                /\ result'.value.shortfall = c - user_profile.fhir_points

\* C10, amended: a redemption of cost c, by redeem_points or by
\* attempt_redemption, succeeds exactly when fhir_points >= c. On success
\* fhir_points decreases by exactly c; redeem_points returns remaining_points
\* equal to the new balance, attempt_redemption returns success True alone.
\* On failure fhir_points is unchanged and the error is 'Insufficient
\* points'; attempt_redemption adds required = c, available = the balance
\* and shortfall = c - available, redeem_points returns the error alone.
C10_Redemption ==
    [][\A u \in UserIds, it \in ItemIds, c \in Costs :
          C10_Redeem(u, it, c) /\ C10_Attempt(u, it, c)]_vars

\* a redemption was refused for a shortfall after earlier ones had succeeded
C10_Witness ==
    /\ result.op = "attempt_redemption"
    /\ result.ret = "value"
    /\ result.value.success = FALSE
    /\ result.value.shortfall > 0
    /\ user_profile.fhir_points < initial_points
    /\ user_profile.fhir_points > 0

\* C11: the balance is never negative. From the non-negative initial
\* balance, after any sequence of awards, redemptions (redeem_points,
\* attempt_redemption) and deductions (safe_point_deduction) with
\* non-negative amounts, fhir_points is never below 0; a deduction that
\* would make it negative is rejected with the error 'Operation would
\* result in negative balance' and leaves the balance unchanged.
C11_NoNegativeBalance ==
    /\ [](user_profile.fhir_points >= 0)
    /\ [][\A u \in UserIds, d \in Deductions :
            (safe_point_deduction(u, d) /\ user_profile.fhir_points - d < 0) =>
                /\ result'.ret = "value"
                /\ result'.value = [success |-> FALSE,
                                    error |-> "Operation would result in negative balance"]
                /\ user_profile' = user_profile]_vars

\* a deduction was rejected on a balance that redemptions had lowered
C11_Witness ==
    /\ result.op = "safe_point_deduction"
    /\ result.ret = "value"
    /\ result.value.success = FALSE
    /\ user_profile.fhir_points < initial_points
    /\ user_profile.fhir_points >= 0


(***************************************************************************)
(* Properties of the concurrent redemptions.                               *)
(***************************************************************************)
\* the calls between setting the lock and releasing it
InCritical == {t \in Threads : calls[t].pc \in Critical}

\* C12: concurrent redemptions do not cause a negative balance. For every
\* interleaving of the calls of thread_safe_redemption on one profile, a
\* statement at a time (test the lock, set the lock, test the balance,
\* decrement, release), fhir_points is never below 0 and at most one call
\* is between setting and releasing the lock.
C12_ConcurrentRedemption ==
    /\ user_profile.fhir_points >= 0
    /\ Cardinality(InCritical) <= 1

\* C13: while the lock is held, any other call of thread_safe_redemption
\* returns success False with the error 'Another redemption in progress'
\* and changes neither fhir_points nor the lock, nor any call in progress.
C13_RefusedWhileLocked ==
    [][\A t \in Threads, it \in ItemIds, c \in RedemptionCosts :
          (TestLock(t, "user-123", it, c) /\ redemption_lock) =>
              /\ result'.ret = "value"
              /\ result'.value = [success |-> FALSE,
                                  error |-> "Another redemption in progress"]
              /\ user_profile' = user_profile
              /\ redemption_lock' = redemption_lock
              /\ calls' = calls]_vars

\* a call was refused while another one was between setting and releasing
C13_Witness ==
    /\ result.op = "thread_safe_redemption"
    /\ result.ret = "value"
    /\ result.value.success = FALSE
    /\ result.value.error = "Another redemption in progress"
    /\ redemption_lock
    /\ InCritical # {}
    /\ user_profile.fhir_points = initial_points


(***************************************************************************)
(* Properties of the authentication guards.                                *)
(***************************************************************************)
\* the request carries a user object: a dictionary with the user's claims
CarriesUser(r) == "claims" \in DOMAIN r.user

\* the profile of the request's user has the role 'admin'
HasAdminRole(r) ==
    /\ "profile" \in DOMAIN r.user
    /\ "role" \in DOMAIN r.user.profile
    /\ r.user.profile.role = "admin"

\* next was called and nothing was sent
NextCalled == next_called' /\ res' = res /\ ~res'.sent

\* the response was sent with this status and message, and next not called
Responded(code, message) ==
    /\ res' = [status_code |-> code, json_data |-> [message |-> message],
               sent |-> TRUE]
    /\ ~next_called'

\* C14: require_user calls next exactly when the request is authenticated
\* and carries a user object; in every other case (unauthenticated, or
\* authenticated with no user object) it responds 401 with the message
\* 'Unauthorized' and never calls next. For every request exactly one of
\* the two happens: next is called or a response is sent.
C14_RequireUser ==
    [][require_user =>
          /\ IF req.isAuthenticated /\ CarriesUser(req)
             THEN NextCalled
             ELSE Responded(401, "Unauthorized")
          /\ next_called' # res'.sent]_vars

\* an authenticated request without a user object was answered 401
C14_Witness ==
    /\ result.op = "require_user"
    /\ req.isAuthenticated
    /\ req.user = NoneObject
    /\ res.sent
    /\ res.status_code = 401
    /\ ~next_called

\* C15: require_admin calls next exactly when the request is authenticated,
\* carries a user object and the role of the user's profile is 'admin'; for
\* every other request (student, instructor, missing profile or role,
\* unauthenticated) it responds 403 with the message 'Admin access
\* required' and never calls next.
C15_RequireAdmin ==
    [][require_admin =>
          IF req.isAuthenticated /\ CarriesUser(req) /\ HasAdminRole(req)
          THEN NextCalled
          ELSE Responded(403, "Admin access required")]_vars

\* an authenticated user whose profile has no role was answered 403
C15_Witness ==
    /\ result.op = "require_admin"
    /\ req.isAuthenticated
    /\ CarriesUser(req)
    /\ "profile" \in DOMAIN req.user
    /\ "role" \notin DOMAIN req.user.profile
    /\ res.sent
    /\ res.status_code = 403
    /\ ~next_called


(***************************************************************************)
(* Properties of the certificates.                                         *)
(***************************************************************************)
\* the call returned a value that carries a certificate id
Issued == result'.ret = "value" /\ "certificate_id" \in DOMAIN result'.value

\* a certificate is issued only for a completed enrollment, under its id
C16_OnlyCompleted(e) ==
    Issued => /\ e.completed
              /\ result'.value.certificate_id = "cert_" \o e.id

C16_Generate(e) ==
    generate_certificate(e, certificate_user, course_data) =>
        /\ C16_OnlyCompleted(e)
        /\ ~e.completed => result'.ret = "None"

C16_Pdf(e) ==
    create_certificate_pdf(e, certificate_user, course_data) =>
        /\ C16_OnlyCompleted(e)
        /\ ~e.completed => result'.ret = "None"

C16_Attempt(e) ==
    attempt_certificate_generation(e, certificate_user, course_data) =>
        /\ C16_OnlyCompleted(e)
        /\ ~e.completed =>
              /\ result'.ret = "value"
              /\ result'.value =
                    [success |-> FALSE,
                     error |-> "Course must be completed before certificate generation",
                     completion_status |-> FALSE,
                     progress |-> e.progress]

\* C16: a certificate is only generated when completed is true.
\* generate_certificate, create_certificate_pdf and
\* attempt_certificate_generation produce a certificate, with the id 'cert_'
\* followed by the enrollment id, only for an enrollment whose completed
\* flag is true; for an incomplete enrollment the first two return None and
\* the third returns success False with the error 'Course must be completed
\* before certificate generation', the completion status and the progress
\* of the enrollment, and no certificate id is issued.
C16_CertificateOnlyWhenCompleted ==
    [][\A e \in CertificateEnrollments :
          C16_Generate(e) /\ C16_Pdf(e) /\ C16_Attempt(e)]_vars

\* generation was refused for an enrollment with 7 of 10 steps
C16_Witness ==
    /\ result.op = "attempt_certificate_generation"
    /\ result.ret = "value"
    /\ result.value.success = FALSE
    /\ result.value.completion_status = FALSE
    /\ result.value.progress.completed_steps = 7


\* the certificate is stored and its valid flag is true
StoredValid(id) ==
    id \in DOMAIN certificate_database /\ certificate_database[id].valid

C17_Verify(id) ==
    verify_certificate(id) =>
        /\ result'.ret = "value"
        /\ result'.value.valid = StoredValid(id)
        /\ IF id \notin DOMAIN certificate_database
           THEN result'.value = [valid |-> FALSE, error |-> "Certificate not found"]
           ELSE IF ~certificate_database[id].valid
           THEN result'.value =
                    [valid |-> FALSE, error |-> "Certificate has been revoked"]
           ELSE /\ result'.value.certificate_id =
                        certificate_database[id].certificate_id
                /\ result'.value.user_id = certificate_database[id].user_id
                /\ result'.value.course_slug = certificate_database[id].course_slug
        /\ certificate_database' = certificate_database

\* C17: verify_certificate returns valid True, with the stored
\* certificate_id, user_id and course_slug, exactly when the certificate id
\* exists in the certificate database and its valid flag is true; an unknown
\* id gives valid False with the error 'Certificate not found' and a stored
\* but invalid certificate gives valid False with the error 'Certificate has
\* been revoked'. Verification never changes the certificate database.
C17_Verification ==
    [][\A id \in LookupIds : C17_Verify(id)]_vars

\* a certificate was verified as valid while another one was revoked
C17_Witness ==
    /\ result.op = "verify_certificate"
    /\ result.ret = "value"
    /\ result.value.valid
    /\ \E id \in DOMAIN certificate_database :
            /\ ~certificate_database[id].valid
            /\ id # result.value.certificate_id

C18_Revoke(id, reason) ==
    revoke_certificate(id, reason) =>
        /\ result'.ret = "value"
        /\ IF id \in DOMAIN certificate_database
           THEN /\ result'.value = TRUE
                /\ DOMAIN certificate_database' = DOMAIN certificate_database
                /\ certificate_database'[id].valid = FALSE
                /\ certificate_database'[id].revoked_at = now
                /\ certificate_database'[id].revocation_reason = reason
                /\ \A other \in DOMAIN certificate_database \ {id} :
                        certificate_database'[other] = certificate_database[other]
           ELSE /\ result'.value = FALSE
                /\ certificate_database' = certificate_database

\* a revoked certificate stays stored and revoked
C18_StaysRevoked ==
    \A id \in DOMAIN certificate_database :
        ~certificate_database[id].valid =>
            /\ id \in DOMAIN certificate_database'
            /\ ~certificate_database'[id].valid

C18_VerifyRevoked(id) ==
    (verify_certificate(id) /\ id \in DOMAIN certificate_database
        /\ ~certificate_database[id].valid) =>
            /\ result'.ret = "value"
            /\ result'.value.valid = FALSE

\* C18: a certificate can be revoked and verification then fails.
\* revoke_certificate on an existing certificate id returns True and sets
\* valid to False, revoked_at and the revocation reason; from then on every
\* verify_certificate of that id reports valid False, as no operation makes
\* it valid again; revoke_certificate on an unknown id returns False and
\* leaves the certificate database unchanged.
C18_Revocation ==
    [][/\ \A id \in LookupIds, reason \in Reasons : C18_Revoke(id, reason)
       /\ C18_StaysRevoked
       /\ \A id \in LookupIds : C18_VerifyRevoked(id)]_vars

\* a verification failed on a certificate revoked at an earlier time
C18_Witness ==
    /\ result.op = "verify_certificate"
    /\ result.ret = "value"
    /\ result.value = [valid |-> FALSE, error |-> "Certificate has been revoked"]
    /\ \E id \in DOMAIN certificate_database :
            /\ ~certificate_database[id].valid
            /\ certificate_database[id].revoked_at < now


(***************************************************************************)
(* Properties of row level security.                                       *)
(***************************************************************************)
\* the enrollments of a user, in database order
RECURSIVE EnrollmentsOf(_, _)
EnrollmentsOf(enrollment_db, user_id) ==
    IF enrollment_db = <<>>
    THEN <<>>
    ELSE (IF Head(enrollment_db).user_id = user_id
          THEN <<Head(enrollment_db)>>
          ELSE <<>>) \o EnrollmentsOf(Tail(enrollment_db), user_id)

\* what the claim says of a read of the enrollments by a session
C19_RoleFiltered(session) ==
    /\ result'.ret = "value"
    /\ result'.value =
          IF session.role = "admin"
          THEN enrollment_database
          ELSE EnrollmentsOf(enrollment_database, session.user_id)

\* neither another user's enrollment nor another user's certificate URL is
\* returned, whatever target user is asked for
C19_CrossUser(session) ==
    /\ \A target \in SessionUserIds :
          attempt_cross_user_access(session, target) =>
              /\ result'.ret = "value"
              /\ result'.value =
                    IF target = session.user_id
                    THEN EnrollmentsOf(enrollment_database, session.user_id)
                    ELSE <<>>
    /\ get_user_certificates(session) =>
          /\ result'.ret = "value"
          /\ \A i \in 1..Len(result'.value) :
                \E j \in 1..Len(enrollment_database) :
                    /\ enrollment_database[j].user_id = session.user_id
                    /\ enrollment_database[j].certificate_url = result'.value[i]

\* C19 as stated: reading enrollments is filtered by session. For a session
\* whose role is not 'admin' the result is exactly the enrollments whose
\* user_id equals the session's user_id, in database order, so it never
\* contains another user's enrollment or certificate URL whatever target
\* user is asked for; for a session whose role is 'admin' the result is all
\* enrollments.
C19_FilteredAsStated ==
    [][\A session \in Sessions :
          /\ (get_user_enrollments(session) \/ get_enrollments_for_role(session))
                => C19_RoleFiltered(session)
          /\ C19_CrossUser(session)]_vars

\* C19, amended: get_user_enrollments returns exactly the enrollments whose
\* user_id equals the session's user_id, in database order, whatever the
\* role of the session; get_enrollments_for_role returns the same for a
\* session whose role is not 'admin' and all enrollments for a session whose
\* role is 'admin'; attempt_cross_user_access and get_user_certificates
\* never return another user's enrollment or certificate URL, whatever
\* target user is asked for.
C19_Filtered ==
    [][\A session \in Sessions :
          /\ get_user_enrollments(session) =>
                /\ result'.ret = "value"
                /\ result'.value =
                      EnrollmentsOf(enrollment_database, session.user_id)
          /\ get_enrollments_for_role(session) => C19_RoleFiltered(session)
          /\ C19_CrossUser(session)]_vars

\* after an update, a student's read returned one enrollment of three
C19_Witness ==
    /\ result.op = "get_enrollments_for_role"
    /\ result.ret = "value"
    /\ Len(result.value) = 1
    /\ result.value[1].id = "enrollment-002"
    /\ Len(enrollment_database) = 3
    /\ enrollment_database # enrollment_fixture

\* the enrollment of that id, if any, belongs to the session's user
C20_Owned(session, id) ==
    \E i \in 1..Len(enrollment_database) :
        /\ enrollment_database[i].id = id
        /\ enrollment_database[i].user_id = session.user_id

\* the updates were written to the enrollment of that id and to no other
C20_Applied(id, updates) ==
    /\ Len(enrollment_database') = Len(enrollment_database)
    /\ \A i \in 1..Len(enrollment_database) :
          IF enrollment_database[i].id = id
          THEN /\ DOMAIN enrollment_database'[i] = DOMAIN enrollment_database[i]
               /\ \A k \in DOMAIN updates :
                      enrollment_database'[i][k] = updates[k]
               /\ \A k \in DOMAIN enrollment_database[i] \ DOMAIN updates :
                      enrollment_database'[i][k] = enrollment_database[i][k]
               /\ result'.value.enrollment = enrollment_database'[i]
          ELSE enrollment_database'[i] = enrollment_database[i]

C20_Update(session, id, updates) ==
    update_enrollment(session, id, updates) =>
        /\ result'.ret = "value"
        /\ result'.value.success = C20_Owned(session, id)
        /\ IF C20_Owned(session, id)
           THEN C20_Applied(id, updates)
           ELSE /\ enrollment_database' = enrollment_database
                /\ result'.value.error =
                      IF \E i \in 1..Len(enrollment_database) :
                            enrollment_database[i].id = id
                      THEN "Access denied"
                      ELSE "Enrollment not found"

\* C20: a user cannot modify another user's enrollment. update_enrollment
\* applies the updates and returns success True only when the enrollment
\* exists and its user_id equals the session's user_id; when the enrollment
\* belongs to someone else it returns success False with the error 'Access
\* denied', when the id does not exist it returns 'Enrollment not found',
\* and in both failure cases every enrollment in the database is unchanged.
C20_UpdateOwnOnly ==
    [][\A session \in Sessions, id \in UpdatedIds, updates \in Updates :
          C20_Update(session, id, updates)]_vars

\* an update of another user's enrollment was denied after one of the
\* session's own had been applied
C20_Witness ==
    /\ result.op = "update_enrollment"
    /\ result.ret = "value"
    /\ result.value = [success |-> FALSE, error |-> "Access denied"]
    /\ enrollment_database # enrollment_fixture


(***************************************************************************)
(* The three awards on one history.                                        *)
(***************************************************************************)
\* the call returned its result: the points or the already-awarded refusal
C27_Returned ==
    /\ result'.ret = "value"
    /\ \/ result'.value.success /\ "points_awarded" \in DOMAIN result'.value
       \/ ~result'.value.success /\ "reason" \in DOMAIN result'.value

\* C27: the three award operations (award_quiz_points, award_byod_points,
\* award_observation_points) can be applied in any order to one shared
\* points history: each call either awards its points or returns its
\* already-awarded result, and none fails because the history holds records
\* written by another award type.
C27_AwardsCompose ==
    [][\A u \in UserIds :
          /\ \A q \in QuizIds, sc \in Scores :
                award_quiz_points(u, q, sc) => C27_Returned
          /\ \A b \in BadgeIds : award_byod_points(u, b) => C27_Returned
          /\ \A o \in ObservationIds :
                award_observation_points(u, o) => C27_Returned]_vars


\* the sessions of the students
StudentSessions == {session \in Sessions : session.role # "admin"}

\* a read, a create or an update performed with this session
C28_Operation(session) ==
    \/ get_user_enrollments(session)
    \/ get_enrollments_for_role(session)
    \/ \E target \in SessionUserIds : attempt_cross_user_access(session, target)
    \/ get_user_certificates(session)
    \/ \E slug \in CourseSlugs : create_enrollment(session, slug)
    \/ \E id \in UpdatedIds, updates \in Updates :
          update_enrollment(session, id, updates)

\* C28: enrollment isolation is preserved by writes. No read, create or
\* update_enrollment operation performed with a non-admin session of user
\* A, with any updates dictionary, changes the set or the content of the
\* enrollments that the session of a different user B reads.
C28_IsolationUnderWrites ==
    [][\A a \in StudentSessions :
          C28_Operation(a) =>
              \A b \in Sessions \ {a} :
                  EnrollmentsOf(enrollment_database', b.user_id) =
                      EnrollmentsOf(enrollment_database, b.user_id)]_vars


(***************************************************************************)
(* The release of the redemption lock.                                     *)
(***************************************************************************)
\* no call of thread_safe_redemption is running
AllReturned == \A t \in Threads : calls[t] = Idle

\* C29: a thread_safe_redemption call that acquired the lock releases it on
\* every return path, both on success and on 'Insufficient points', so once
\* every running redemption has returned the lock is free and a later
\* redemption is not rejected with 'Another redemption in progress'.
C29_LockReleased ==
    /\ [](AllReturned => ~redemption_lock)
    /\ [][\A t \in Threads :
            /\ Release(t) =>
                  /\ ~redemption_lock'
                  /\ result' = [op |-> "thread_safe_redemption", ret |-> "value",
                                value |-> calls[t].ret]
            /\ \A it \in ItemIds, c \in RedemptionCosts :
                  (TestLock(t, "user-123", it, c) /\ AllReturned) =>
                      /\ calls'[t].pc = "set_lock"
                      /\ result' = result]_vars

\* a call returned 'Insufficient points', no call is running, the lock is free
C29_Witness ==
    /\ result.op = "thread_safe_redemption"
    /\ result.ret = "value"
    /\ result.value = [success |-> FALSE, error |-> "Insufficient points"]
    /\ AllReturned
    /\ ~redemption_lock


(***************************************************************************)
(* One run of check_trial_expiration over the whole list.                  *)
(***************************************************************************)
\* a purchase whose trial ended before t and that is still trialing
C30_ExpiredTrial(purchase, t) ==
    /\ purchase.status = "trialing"
    /\ "trial_ends_at" \in DOMAIN purchase
    /\ purchase.trial_ends_at # None
    /\ purchase.trial_ends_at < t

\* C30: after one run of check_trial_expiration no purchase remains with
\* status 'trialing' and a trial_ends_at earlier than now: every expired
\* trial in the purchases list, not only the first one found, is moved to
\* 'past_due' by that run.
C30_EveryExpiredTrial ==
    [][check_trial_expiration =>
          \A i \in 1..Len(purchases') : ~C30_ExpiredTrial(purchases'[i], now)]_vars


(***************************************************************************)
(* Properties of the database initializer.                                 *)
(***************************************************************************)
\* initialize_database has returned in this run of main
InitializeReturned ==
    \/ initializer.pc \in {"return", "exit"}
    \/ initializer.pc = "exited" /\ result.op = "initialize_database"

\* the file was read and execute_sql returned True for it
StepSucceeded(step) == step.read /\ step.executed

C21_BothAttempted ==
    InitializeReturned =>
        /\ Len(initializer.steps) = 2
        /\ initializer.steps[1].file = "schema.sql"
        /\ initializer.steps[2].file = "policies.sql"

C21_ReturnsConjunction ==
    initialize_database =>
        result'.value = (\A i \in 1..2 : StepSucceeded(initializer.steps[i]))

C21_ExitCode ==
    initializer.pc = "exited" =>
        /\ exit_code \in {0, 1}
        /\ exit_code = 0 <=> result = Return("initialize_database", TRUE)

C21_MissingEnvironment ==
    \A url \in EnvValues, key \in EnvValues :
        SupabaseDBInitializer(url, key) /\ (url = NoneString \/ key = NoneString) =>
            /\ exit_code' = 1
            /\ initializer'.pc = "exited"

\* C21: whenever initialize_database returns it has attempted schema.sql and
\* then policies.sql, also after a failure of the schema step, and it returns
\* True exactly when both files were read and execute_sql returned True for
\* both; main exits with 0 exactly when initialize_database returned True
\* and with 1 otherwise, a missing VITE_SUPABASE_URL or
\* SUPABASE_SERVICE_ROLE_KEY included.
C21_InitializeAndExit ==
    /\ [](C21_BothAttempted /\ C21_ExitCode)
    /\ [][C21_ReturnsConjunction /\ C21_MissingEnvironment]_vars

\* the schema could not be read, policies.sql was executed all the same and
\* main exited with 1
C21_Witness ==
    /\ initializer.pc = "exited"
    /\ result = Return("initialize_database", FALSE)
    /\ exit_code = 1
    /\ ~initializer.steps[1].read
    /\ StepSucceeded(initializer.steps[2])

\* C22: execute_sql never raises: it returns True for status 200, what the
\* statement-by-statement fallback returns for status 404, and False for
\* every other status and for every exception of the post.
C22_ExecuteSqlResult ==
    [][\A response \in SqlResponses,
          responses \in UNION {FallbackResponses(Files[i].content) : i \in 1..Len(Files)} :
            ExecuteSql(response, responses) =>
                /\ result'.ret = "value"
                /\ result'.value =
                      IF "raises" \in DOMAIN response THEN FALSE
                      ELSE IF response.status_code = 200 THEN TRUE
                      ELSE IF response.status_code = 404
                      THEN execute_sql_fallback(Files[initializer.file].content,
                                                responses).ret
                      ELSE FALSE]_vars

\* execute_sql returned False after its post raised, and after status 500
C22_Witness ==
    /\ Len(initializer.steps) = 2
    /\ result = Return("execute_sql", FALSE)
    /\ \E i \in 1..Len(posted) : posted[i].response = Raises("TypeError")
    /\ posted[Len(posted)].response = Status(500)

\* C23: whenever initialize_database returns True, every statement that was
\* sent to the server got a success status (200, 201 or 204), on the
\* fallback path too.
C23_SuccessMeansAccepted ==
    result = Return("initialize_database", TRUE) =>
        \A i \in 1..Len(posted) :
            posted[i].url = "/rest/v1/rpc/exec" =>
                /\ "status_code" \in DOMAIN posted[i].response
                /\ posted[i].response.status_code \in {200, 201, 204}


(***************************************************************************)
(* Properties of the commerce seeder.                                      *)
(***************************************************************************)
SeedAllSteps == <<"connect", "seed_products", "seed_prices", "seed_courses", "seed_badges">>

SeededTables == <<"products", "prices", "courses", "badges">>

\* a table is written only by its own step, and a step starts only when the
\* step before it has returned
C24_StepOrder ==
    /\ \A i \in 1..4 :
          /\ database'[SeededTables[i]] # database[SeededTables[i]] =>
                seeder.pc = SeedAllSteps[i + 1]
          /\ seeder'.pc = SeedAllSteps[i + 1] /\ seeder.pc # seeder'.pc =>
                /\ seeder.pc = SeedAllSteps[i]
                /\ result' = ReturnNone(SeedAllSteps[i])
    /\ seeder'.pc = "connect" /\ seeder.pc # seeder'.pc => seeder.pc = "idle"

\* every price and every course that names a product finds it in products
C24_ProductsFirst ==
    /\ \A price \in database.prices :
          \E product \in database.products : product.sku = price.product_sku
    /\ \A course \in database.courses :
          course.requires_product_sku # NoneString =>
              \E product \in database.products :
                  product.sku = course.requires_product_sku

\* a step that raises hands its exception to the finally clause
C24_FailureToDisconnect ==
    seeder.run = "seed_all" /\ result' # result /\ result'.ret = "raise"
                            /\ seeder.pc \notin {"disconnect", "exit"} =>
        /\ seeder'.pc = "disconnect"
        /\ seeder'.pending = result'.exc

\* disconnect closes the connection if connect has made one, does nothing
\* otherwise, and leaves the exception as it is
C24_Disconnect ==
    disconnect =>
        /\ seeder'.pending = seeder.pending
        /\ seeder'.pc = "exit"
        /\ IF seeder.has_conn THEN ~seeder'.open ELSE seeder'.open = seeder.open

\* the run ends only after disconnect, and it raises the exception of the
\* step that failed
C24_RaisedAfterDisconnect ==
    /\ seeder'.pc = "exit" => seeder.pc \in {"disconnect", "exit"}
    /\ seeder.run = "seed_all" /\ seeder'.run = "none" =>
          /\ seeder.pc = "exit"
          /\ result = ReturnNone("disconnect")
          /\ result' = IF seeder.pending = "none"
                       THEN ReturnNone("seed_all")
                       ELSE Raise("seed_all", seeder.pending)

\* C24: seed_all connects and then seeds products, prices, courses and
\* badges in that order, so that no price or course is written before its
\* product; on every path, a failure of connect or of a step included,
\* disconnect is executed before the run ends and the failure is raised
\* after it; disconnect closes the connection only if connect made one.
C24_SeedAll ==
    /\ [](C24_ProductsFirst /\ (result.op = "seed_all" => ~seeder.open))
    /\ [][C24_StepOrder /\ C24_FailureToDisconnect /\ C24_Disconnect
            /\ C24_RaisedAfterDisconnect]_vars

\* seed_all raised the failure of seed_prices after the connection was closed
C24_Witness ==
    /\ result = Raise("seed_all", "PostgresError")
    /\ seeder.has_conn /\ ~seeder.open
    /\ Cardinality(database.products) = 3
    /\ Cardinality(database.prices) = 1
    /\ database.courses = {}

\* the image of a list
Rows(list) == {list[i] : i \in 1..Len(list)}

\* the four tables after one run of seed_all with these price ids
C25_Once(stripe_price_ids) ==
    [products |-> Rows(ProductRows), prices |-> Rows(PriceRows(stripe_price_ids)),
     courses |-> Rows(CourseRows), badges |-> Rows(BadgeRows)]

\* the four tables hold no row but those of a run with these price ids
C25_Within(stripe_price_ids) ==
    \A i \in 1..4 :
        database[SeededTables[i]] \subseteq C25_Once(stripe_price_ids)[SeededTables[i]]

C25_SeededOnce(stripe_price_ids) ==
    \A i \in 1..4 :
        database[SeededTables[i]] = C25_Once(stripe_price_ids)[SeededTables[i]]

C25_KeyedRows ==
    /\ Cardinality({row.sku : row \in database.products}) = 3
    /\ Cardinality({row.stripe_price_id : row \in database.prices}) = 3
    /\ Cardinality({row.slug : row \in database.courses}) = 3
    /\ Cardinality({row.code : row \in database.badges}) = 3
    /\ \A i \in 1..4 : Cardinality(database[SeededTables[i]]) = 3

\* C25: seeding is idempotent: a run of seed_all on tables that hold what a
\* run with the same price ids wrote changes no row, and after every
\* successful run on such tables they are what one run leaves: 3 products
\* by sku, 3 prices by stripe_price_id, 3 courses by slug, 3 badges by code.
C25_Idempotent ==
    /\ [](result = ReturnNone("seed_all") /\ C25_Within(seeder.stripe_price_ids) =>
            C25_SeededOnce(seeder.stripe_price_ids) /\ C25_KeyedRows)
    /\ [][seeder.run = "seed_all" =>
            /\ C25_Within(seeder.stripe_price_ids) =>
                 C25_Within(seeder.stripe_price_ids)'
            /\ C25_SeededOnce(seeder.stripe_price_ids) =>
                 database' = database]_vars

\* the second run has come to seed_badges and the tables are those of the
\* first
C25_Witness ==
    /\ seeder.started = 2
    /\ seeder.pc = "disconnect"
    /\ result = ReturnNone("seed_badges")
    /\ "bootcamp_basic" \in DOMAIN seeder.stripe_price_ids
    /\ C25_SeededOnce(seeder.stripe_price_ids)


DemoSteps == <<"seed_demo_purchases", "seed_demo_enrollments", "seed_demo_awards">>

DemoTables == <<"purchases", "enrollments", "awards">>

\* the ids that demo_user_ids holds
RecordedIds(s) == {s.demo_user_ids[email] : email \in DOMAIN s.demo_user_ids}

\* the steps of seed_demo_data start in the order users, purchases,
\* enrollments, awards, each when the one before it has returned, and a
\* table is written only by its own step
C26_StepOrder ==
    /\ seeder'.pc = "seed_demo_users" /\ seeder.pc # seeder'.pc /\ seeder'.run # "none" =>
          seeder.pc = "connect" /\ result' = ReturnNone("connect")
    /\ seeder'.pc = DemoSteps[1] /\ seeder.pc # seeder'.pc /\ seeder'.run # "none" =>
          seeder.pc = "seed_demo_users" /\ result' = ReturnNone("seed_demo_users")
    /\ \A i \in 2..3 :
          seeder'.pc = DemoSteps[i] /\ seeder.pc # seeder'.pc /\ seeder'.run # "none" =>
              seeder.pc = DemoSteps[i - 1] /\ result' = ReturnNone(DemoSteps[i - 1])
    /\ \A i \in 1..3 :
          database'[DemoTables[i]] # database[DemoTables[i]] => seeder.pc = DemoSteps[i]

\* a row that the three steps write carries an id that demo_user_ids holds,
\* and within seed_demo_data one that seed_demo_users made in this run
C26_WrittenIds ==
    \A i \in 1..3 :
        \A row \in database'[DemoTables[i]] \ database[DemoTables[i]] :
            /\ row.user_id \in RecordedIds(seeder)
            /\ seeder.run = "seed_demo_data" => row.user_id.uuid4 = seeder.uuids

\* one of the three steps on a seeder whose seed_demo_users has not run
\* raises and writes nothing
C26_WithoutUsers ==
    \A i \in 1..3 :
        seeder.pc = DemoSteps[i] /\ seeder'.pc # seeder.pc
                                 /\ seeder.demo_user_ids = EmptyDict =>
            /\ result' = Raise(DemoSteps[i], "KeyError")
            /\ database' = database

\* C26: seed_demo_data seeds the demo users before the demo purchases,
\* enrollments and awards; every user_id that these three steps write is an
\* id that seed_demo_users recorded in demo_user_ids, in the same run of
\* seed_demo_data; each of the three steps on a seeder whose
\* seed_demo_users has not run fails and writes no row.
C26_DemoUsersFirst ==
    /\ [](seeder.run = "seed_demo_data"
            /\ seeder.pc \in {DemoSteps[i] : i \in 1..3} =>
                \A email \in DOMAIN seeder.demo_user_ids :
                    seeder.demo_user_ids[email].uuid4 = seeder.uuids)
    /\ [][C26_StepOrder /\ C26_WrittenIds /\ C26_WithoutUsers]_vars

\* after a run of seed_demo_data has written its rows, seed_demo_awards is
\* called on a new seeder with an open connection and fails on the lookup
C26_Witness ==
    /\ result = Raise("seed_demo_awards", "KeyError")
    /\ seeder.open
    /\ seeder.demo_user_ids = EmptyDict
    /\ Cardinality(database.purchases) = 3
    /\ Cardinality(database.enrollments) = 6
    /\ Cardinality(database.awards) = 4

====
